---- MODULE Spec2Model ----
(***************************************************************************)
(* The cache-aware query/mutation layer of the e-commerce backend: the     *)
(* entity services (Campaign, Offer, Product, Brand, Cart) over the        *)
(* document store and the key-value cache.  Every `await` of a handler is  *)
(* one step of the request that runs it; requests interleave at steps.     *)
(***************************************************************************)
EXTENDS Integers, Sequences, FiniteSets, TLC

\* ------------------------------------------------------------ bounds
NumProcs == 2
NumProducts == 3
MaxPromos == 2
MaxBrands == 2
NumUsers == 2
MaxCarts == 3
MaxQuantity == 2
MaxTotal == 3
MaxVariants == 3
MaxOrders == 3
AddProducts == 2
MaxItems == 4
MaxReviews == 2
MaxNameLen == 3

Procs == 1..NumProcs
ProductIds == 1..NumProducts
PromoIds == 1..MaxPromos
BrandIds == 1..MaxBrands
UserIds == 1..NumUsers
CartIds == 1..MaxCarts
Kinds == {"campaigns", "offers"}
Collections == {"cart", "wishlist"}

VARIABLES
  promos,     \* CampaignModel / OfferModel: kind -> id -> document
  nextId,     \* collection -> the next _id the store hands out
  products,   \* ProductModel: id -> document
  cache,      \* the key-value cache: key -> payload (its domain: the keys present)
  pc,         \* request slot -> the await it is suspended at
  loc,        \* request slot -> the handler's local variables
  last,       \* the request that completed last, with what it returned
  brands,     \* BrandModel: id -> document
  carts,      \* CartModel / WishlistModel: collection -> the documents stored
  orders,     \* OrderModel: the documents stored, in the order of their insertion
  before      \* request slot -> the campaigns, offers and products it was called on

vars ==
  <<promos, nextId, products, cache, pc, loc, last, brands, carts, orders, before>>

\* ------------------------------------------------------------ values
Range(s) == {s[i] : i \in 1..Len(s)}

NoDoc == [state |-> "none", productsIds |-> {}, is_active |-> TRUE]
GoneDoc == [state |-> "deleted", productsIds |-> {}, is_active |-> TRUE]

NoQuery == [none |-> TRUE]
NoKey == [res |-> <<>>, q |-> NoQuery]
NoRes == [none |-> TRUE]

IdleLoc ==
  [op |-> "idle", kind |-> "none", id |-> 0, has |-> FALSE, pids |-> {},
   act |-> {}, old |-> {}, key |-> NoKey, res |-> NoRes, hit |-> FALSE,
   unlinked |-> FALSE, user |-> 0, data |-> NoRes, doc |-> NoRes,
   created |-> FALSE]

\* `${resource}:${id}`: the identifier as it is spliced into a key
IdStr(id) == ToString(id)

\* ------------------------------------------------------------ store primitives
\* $push: the value is appended
AddToSetPush(arr, x) == Append(arr, x)

\* $addToSet: the value is appended unless the array already holds it
AddToSet(arr, x) == IF x \in Range(arr) THEN arr ELSE Append(arr, x)

\* $pull: every occurrence of the value is removed
Pull(arr, x) == SelectSeq(arr, LAMBDA y : y # x)

RECURSIVE AddEachToSet(_, _)
AddEachToSet(arr, xs) ==
  IF xs = <<>> THEN arr ELSE AddEachToSet(AddToSet(arr, Head(xs)), Tail(xs))

\* updateMany({_id: {$in: ids}}, {$addToSet: {[kind]: id}}): only stored products match
UpdateManyAddToSet(prods, ids, kind, id) ==
  [p \in ProductIds |->
     IF p \in ids /\ prods[p].exists
     THEN [prods[p] EXCEPT ![kind] = AddToSet(@, id)]
     ELSE prods[p]]

\* updateMany({_id: {$in: ids}}, {$pull: {[kind]: id}})
UpdateManyPull(prods, ids, kind, id) ==
  [p \in ProductIds |->
     IF p \in ids /\ prods[p].exists
     THEN [prods[p] EXCEPT ![kind] = Pull(@, id)]
     ELSE prods[p]]

\* ------------------------------------------------------------ queries
Min(a, b) == IF a <= b THEN a ELSE b

\* a page count that rounds down
FloorDiv(total, limit) == total \div limit

\* Math.ceil(total / limit)
CeilDiv(total, limit) == (total + limit - 1) \div limit

RECURSIVE Ascending(_)
Ascending(S) ==
  IF S = {} THEN <<>>
  ELSE LET m == CHOOSE x \in S : \A y \in S : x <= y
       IN <<m>> \o Ascending(S \ {m})

Reverse(s) == [i \in 1..Len(s) |-> s[Len(s) + 1 - i]]

\* sort({createdAt: dir}): _ids are handed out in creation order
SortByCreatedAt(S, dir) == IF dir = 1 THEN Ascending(S) ELSE Reverse(Ascending(S))

\* skip((page - 1) * limit).limit(limit)
SkipLimit(s, page, limit) ==
  LET skip == (page - 1) * limit
  IN IF skip >= Len(s) THEN <<>> ELSE SubSeq(s, skip + 1, Min(skip + limit, Len(s)))

Pagination(total, page, limit) ==
  [items |-> total, page |-> page, limit |-> limit, totalPages |-> CeilDiv(total, limit)]

\* ------------------------------------------------------------ cache gateway
\* A key is the resource's segments (joined by ":") followed, when a query is
\* given, by ":" and the canonical serialisation of the query.
generateCacheKey(resource, query) == [res |-> resource, q |-> query]

IsPrefix(p, s) == Len(p) <= Len(s) /\ SubSeq(s, 1, Len(p)) = p

\* "a:b:*" matches the keys that start with "a:b:"
Matches(prefix, key) ==
  /\ IsPrefix(prefix, key.res)
  /\ (Len(key.res) > Len(prefix) \/ key.q # NoQuery)

Present(c, key) == key \in DOMAIN c

getCache(c, key) == c[key]

setCache(c, key, value) ==
  [k \in DOMAIN c \cup {key} |-> IF k = key THEN value ELSE c[k]]

\* delete-by-key
deleteCache(c, key) == [k \in DOMAIN c \ {key} |-> c[k]]

\* delete-by-prefix-pattern: deleteCache("a:b:*")
deleteCachePattern(c, prefix) ==
  [k \in {x \in DOMAIN c : ~Matches(prefix, x)} |-> c[k]]

EmptyCache == [k \in {} |-> NoRes]

\* ------------------------------------------------------------ requests
Idle(q) == pc[q] = "idle"
Quiescent == \A q \in Procs : pc[q] \in {"idle", "off"}

\* what a request finds stored when it is called; kept, while the request is in
\* flight, where requests are served one at a time
NoSnapshot == [none |-> TRUE]
Snapshot == [promos |-> promos, products |-> products]
Alone(q) == \A r \in Procs \ {q} : pc[r] = "off"

\* the handler goes on to its next await
Goto(q, label) ==
  /\ pc' = [pc EXCEPT ![q] = label]
  /\ before' = IF pc[q] = "idle" /\ Alone(q)
               THEN [before EXCEPT ![q] = Snapshot]
               ELSE before

\* what the caller of a read gets: the payload, and whether the cache answered
ListOps == {"product.list", "promo.list", "brand.list"}
ReadOps ==
  ListOps \cup {"product.getById", "promo.getById", "cart.getCart",
                "wishlist.getWishlist", "cart.getAllCarts"}

NoLast == [op |-> "none", key |-> NoKey, res |-> NoRes, hit |-> FALSE]

Response(l) ==
  IF l.op \in ReadOps
  THEN [op |-> l.op, key |-> l.key, res |-> l.res, hit |-> l.hit]
  ELSE NoLast

\* the handler returns (or throws): the slot is free again.  `last` keeps the
\* response of the latest read while no mutation has completed since.
Return(q, l) ==
  /\ pc' = [pc EXCEPT ![q] = "idle"]
  /\ loc' = [loc EXCEPT ![q] = IdleLoc]
  /\ last' = Response(l)
  /\ before' = [before EXCEPT ![q] = NoSnapshot]

\* the handler throws: the caller of any operation gets the error
Throw(q, l, err) ==
  /\ pc' = [pc EXCEPT ![q] = "idle"]
  /\ loc' = [loc EXCEPT ![q] = IdleLoc]
  /\ last' = [op |-> l.op, key |-> l.key, res |-> [error |-> err], hit |-> FALSE]
  /\ before' = [before EXCEPT ![q] = NoSnapshot]

\* ------------------------------------------------------------ CampaignService / OfferService
\* The two services are the same code over CampaignModel (applies_to.productsIds,
\* products' `campaigns`) and OfferModel (applicable_products, products' `offers`);
\* k names the one that runs.
Live(k, id) == promos[k][id].state = "live"

\* an update that sets the product-ID list whether or not data carries one
ApplyUpdateAll(doc, l) ==
  [doc EXCEPT !.productsIds = l.pids,
              !.is_active = IF l.act = {} THEN @ ELSE (CHOOSE b \in l.act : TRUE)]

\* findByIdAndUpdate(id, data): the fields data carries are set; no upsert
ApplyUpdate(doc, l) ==
  [doc EXCEPT !.productsIds = IF l.has THEN l.pids ELSE @,
              !.is_active = IF l.act = {} THEN @ ELSE (CHOOSE b \in l.act : TRUE)]

\* a product id as the store returns it (an ObjectId) and as a request body
\* carries it (the hex string)
ObjectId(p) == [oid |-> p]
HexString(p) == [str |-> p]

toString(v) == IF "oid" \in DOMAIN v THEN HexString(v.oid) ELSE v

ProductOf(v) == IF "oid" \in DOMAIN v THEN v.oid ELSE v.str

\* oldCampaign.applies_to.productsIds: the ObjectIds of the document read
StoredIds(pids) == {ObjectId(p) : p \in pids}

\* data.applies_to.productsIds: the strings of the request body
BodyIds(pids) == {HexString(p) : p \in pids}

\* Array.prototype.includes compares by SameValueZero: an ObjectId is equal to no
\* string
ArrayIncludes(arr, x) == x \in arr

\* MongooseArray.includes compares with ==: an ObjectId by its string
MongooseArrayIncludes(arr, x) == \E y \in arr : toString(y) = toString(x)

\* in old but not in new
productsToUnlink(oldProductIds, newProductIds) ==
  {pid \in oldProductIds : ~ArrayIncludes(newProductIds, pid)}

\* in new but not in old
productsToLink(oldProductIds, newProductIds) ==
  {pid \in newProductIds : ~MongooseArrayIncludes(oldProductIds, pid)}

\* the products updateMany({_id: {$in: ids}}) selects
In(ids) == {ProductOf(v) : v \in ids}

\* the diff update computes from the document read and the request body
ToUnlink(l) == In(productsToUnlink(StoredIds(l.old), BodyIds(l.pids)))
ToLink(l) == In(productsToLink(StoredIds(l.old), BodyIds(l.pids)))

\* create: Model.create(data)
PromoCreate(q, k, pids, act) ==
  /\ Idle(q)
  /\ nextId[k] <= MaxPromos
  /\ promos' = [promos EXCEPT ![k][nextId[k]] =
                  [state |-> "live", productsIds |-> pids, is_active |-> act]]
  /\ nextId' = [nextId EXCEPT ![k] = @ + 1]
  /\ loc' = [loc EXCEPT ![q] = [IdleLoc EXCEPT !.op = "create", !.kind = k,
                                  !.id = nextId[k], !.has = TRUE, !.pids = pids]]
  /\ Goto(q, IF pids # {} THEN "create_link" ELSE "create_inval")
  /\ UNCHANGED <<orders, brands, carts, products, cache, last>>

\* create: ProductModel.updateMany($in productsIds, $addToSet)
PromoCreateLink(q) ==
  /\ pc[q] = "create_link"
  /\ products' = UpdateManyAddToSet(products, loc[q].pids, loc[q].kind, loc[q].id)
  /\ Goto(q, "create_invalp")
  /\ UNCHANGED <<orders, brands, carts, promos, nextId, cache, loc, last>>

\* a create that leaves the product lists cached
PromoCreateKeepProducts(q) ==
  /\ pc[q] = "create_invalp"
  /\ Goto(q, "create_inval")
  /\ UNCHANGED <<orders, brands, carts, promos, nextId, products, cache, loc, last>>

\* create: deleteCache('products:list:*')
PromoCreateInvalProducts(q) ==
  /\ pc[q] = "create_invalp"
  /\ cache' = deleteCachePattern(cache, <<"products", "list">>)
  /\ Goto(q, "create_inval")
  /\ UNCHANGED <<orders, brands, carts, promos, nextId, products, loc, last>>

\* create: deleteCache(generateCacheKey({resource})); return {_id}
PromoCreateInval(q) ==
  /\ pc[q] = "create_inval"
  /\ cache' = deleteCache(cache, generateCacheKey(<<loc[q].kind>>, NoQuery))
  /\ Return(q, [loc[q] EXCEPT !.res = [_id |-> loc[q].id]])
  /\ UNCHANGED <<orders, brands, carts, promos, nextId, products>>

\* update: oldCampaign = findById(id); NotFound when there is none
PromoUpdate(q, k, id, has, pids, act) ==
  /\ Idle(q)
  /\ LET l == [IdleLoc EXCEPT !.op = "update", !.kind = k, !.id = id,
                              !.has = has, !.pids = pids, !.act = act]
     IN IF ~Live(k, id)
        THEN /\ Throw(q, l, "NotFound")
             /\ UNCHANGED <<orders, brands, carts, promos, nextId, products, cache>>
        ELSE /\ loc' = [loc EXCEPT ![q] = [l EXCEPT !.old = promos[k][id].productsIds]]
             /\ Goto(q, "update_write")
             /\ UNCHANGED <<orders, brands, carts, promos, nextId, products, cache, last>>

\* where update goes after a step, by the product-ID diff
AfterUpdateStep(l, done) ==
  LET un == ToUnlink(l)
      li == ToLink(l)
  IN IF ~l.has THEN "update_invald"
     ELSE IF done = "write" /\ un # {} THEN "update_unlink"
     ELSE IF done \in {"write", "unlink"} /\ li # {} THEN "update_link"
     ELSE IF un # {} \/ li # {} THEN "update_invalp"
     ELSE "update_invald"

\* update: findByIdAndUpdate(id, data, {new: true}); null when the record is gone
PromoUpdateWrite(q) ==
  /\ pc[q] = "update_write"
  /\ LET k == loc[q].kind
         id == loc[q].id
     IN IF Live(k, id)
        THEN /\ promos' = [promos EXCEPT ![k][id] = ApplyUpdate(@, loc[q])]
             /\ loc' = [loc EXCEPT ![q].res = ApplyUpdate(promos[k][id], loc[q])]
        ELSE /\ UNCHANGED promos
             /\ loc' = [loc EXCEPT ![q].res = [null |-> TRUE]]
  /\ Goto(q, AfterUpdateStep(loc[q], "write"))
  /\ UNCHANGED <<orders, brands, carts, nextId, products, cache, last>>

\* update: updateMany($in productsToUnlink, $pull)
PromoUpdateUnlink(q) ==
  /\ pc[q] = "update_unlink"
  /\ products' = UpdateManyPull(products, ToUnlink(loc[q]), loc[q].kind, loc[q].id)
  /\ Goto(q, AfterUpdateStep(loc[q], "unlink"))
  /\ UNCHANGED <<orders, brands, carts, promos, nextId, cache, loc, last>>

\* update: updateMany($in productsToLink, $addToSet)
PromoUpdateLink(q) ==
  /\ pc[q] = "update_link"
  /\ products' = UpdateManyAddToSet(products, ToLink(loc[q]), loc[q].kind, loc[q].id)
  /\ Goto(q, AfterUpdateStep(loc[q], "link"))
  /\ UNCHANGED <<orders, brands, carts, promos, nextId, cache, loc, last>>

\* an update that leaves the cached product lists in place
PromoUpdateKeepProducts(q) ==
  /\ pc[q] = "update_invalp"
  /\ Goto(q, "update_invald")
  /\ UNCHANGED <<orders, brands, carts, promos, nextId, products, cache, loc, last>>

\* update: deleteCache('products:list:*') when the diff is not empty
PromoUpdateInvalProducts(q) ==
  /\ pc[q] = "update_invalp"
  /\ cache' = deleteCachePattern(cache, <<"products", "list">>)
  /\ Goto(q, "update_invald")
  /\ UNCHANGED <<orders, brands, carts, promos, nextId, products, loc, last>>

\* update: deleteCache(generateCacheKey({resource: `${RESOURCE}:${id}`}))
PromoUpdateInvalDetail(q) ==
  /\ pc[q] = "update_invald"
  /\ cache' = deleteCache(cache,
                generateCacheKey(<<loc[q].kind, IdStr(loc[q].id)>>, NoQuery))
  /\ Goto(q, "update_inval")
  /\ UNCHANGED <<orders, brands, carts, promos, nextId, products, loc, last>>

\* update: deleteCache(generateCacheKey({resource: RESOURCE})); return the record
PromoUpdateInval(q) ==
  /\ pc[q] = "update_inval"
  /\ cache' = deleteCache(cache, generateCacheKey(<<loc[q].kind>>, NoQuery))
  /\ Return(q, loc[q])
  /\ UNCHANGED <<orders, brands, carts, promos, nextId, products>>

\* updateStatus(id, is_active) == update(id, {is_active})
PromoUpdateStatus(q, k, id, is_active) ==
  PromoUpdate(q, k, id, FALSE, {}, {is_active})

\* a delete that skips the unlink of the referenced products
AfterDeleteReadSkip(productsIds) == "delete_remove"

\* delete: products are unlinked first when the record references any
AfterDeleteRead(productsIds) ==
  IF productsIds # {} THEN "delete_unlink" ELSE "delete_remove"

\* delete: findById(id).select('_id productsIds'); NotFound when there is none
PromoDelete(q, k, id) ==
  /\ Idle(q)
  /\ LET l == [IdleLoc EXCEPT !.op = "delete", !.kind = k, !.id = id]
     IN IF ~Live(k, id)
        THEN /\ Throw(q, l, "NotFound")
             /\ UNCHANGED <<orders, brands, carts, promos, nextId, products, cache>>
        ELSE /\ loc' = [loc EXCEPT ![q] = [l EXCEPT !.old = promos[k][id].productsIds]]
             /\ Goto(q, AfterDeleteRead(promos[k][id].productsIds))
             /\ UNCHANGED <<orders, brands, carts, promos, nextId, products, cache, last>>

\* delete: updateMany($in productsIds, $pull)
PromoDeleteUnlink(q) ==
  /\ pc[q] = "delete_unlink"
  /\ products' = UpdateManyPull(products, loc[q].old, loc[q].kind, loc[q].id)
  /\ loc' = [loc EXCEPT ![q].unlinked = TRUE]
  /\ Goto(q, "delete_invalp")
  /\ UNCHANGED <<orders, brands, carts, promos, nextId, cache, last>>

\* delete: deleteCache('products:list:*')
PromoDeleteInvalProducts(q) ==
  /\ pc[q] = "delete_invalp"
  /\ cache' = deleteCachePattern(cache, <<"products", "list">>)
  /\ Goto(q, "delete_remove")
  /\ UNCHANGED <<orders, brands, carts, promos, nextId, products, loc, last>>

\* delete: findByIdAndDelete(id)
PromoDeleteRemove(q) ==
  /\ pc[q] = "delete_remove"
  /\ promos' = [promos EXCEPT ![loc[q].kind][loc[q].id] =
                  IF @.state = "live" THEN GoneDoc ELSE @]
  /\ Goto(q, "delete_invald")
  /\ UNCHANGED <<orders, brands, carts, nextId, products, cache, loc, last>>

\* delete: deleteCache(generateCacheKey({resource: `${RESOURCE}:${id}`}))
PromoDeleteInvalDetail(q) ==
  /\ pc[q] = "delete_invald"
  /\ cache' = deleteCache(cache,
                generateCacheKey(<<loc[q].kind, IdStr(loc[q].id)>>, NoQuery))
  /\ Goto(q, "delete_inval")
  /\ UNCHANGED <<orders, brands, carts, promos, nextId, products, loc, last>>

\* delete: deleteCache(generateCacheKey({resource: RESOURCE})); return {_id}
PromoDeleteInval(q) ==
  /\ pc[q] = "delete_inval"
  /\ cache' = deleteCache(cache, generateCacheKey(<<loc[q].kind>>, NoQuery))
  /\ Return(q, [loc[q] EXCEPT !.res = [_id |-> loc[q].id]])
  /\ UNCHANGED <<orders, brands, carts, promos, nextId, products>>

\* populate('applies_to.productsIds', ...): the stored products among the ids
PromoView(k, id, includeProducts) ==
  [_id |-> id,
   is_active |-> promos[k][id].is_active,
   productsIds |-> IF includeProducts = "true"
                   THEN {[_id |-> p] : p \in {x \in promos[k][id].productsIds :
                                                 products[x].exists}}
                   ELSE promos[k][id].productsIds]

\* filter.is_active is set when the query carries a string
PromoFilter(k, query) ==
  {id \in PromoIds : /\ Live(k, id)
                     /\ (query.is_active \in {"true", "false"} =>
                           promos[k][id].is_active = (query.is_active = "true"))}

\* find(filter).skip().limit().sort() with countDocuments(filter)
PromoListResult(k, query) ==
  LET ids == SkipLimit(SortByCreatedAt(PromoFilter(k, query),
                                       IF query.sortOrder = "asc" THEN 1 ELSE -1),
                       query.page, query.limit)
  IN [campaigns |-> [i \in 1..Len(ids) |-> PromoView(k, ids[i], query.includeProducts)],
      pagination |-> Pagination(Cardinality(PromoFilter(k, query)), query.page, query.limit)]

\* list: getCache(generateCacheKey({resource: `${RESOURCE}:list`, query: {...}}))
PromoList(q, k, query) ==
  /\ Idle(q)
  /\ LET key == generateCacheKey(<<k, "list">>, query)
         l == [IdleLoc EXCEPT !.op = "promo.list", !.kind = k, !.key = key]
     IN IF Present(cache, key)
        THEN Return(q, [l EXCEPT !.res = getCache(cache, key), !.hit = TRUE])
        ELSE /\ loc' = [loc EXCEPT ![q] = l]
             /\ Goto(q, "promolist_query")
             /\ UNCHANGED last
  /\ UNCHANGED <<orders, brands, carts, promos, nextId, products, cache>>

\* list: the persistence query
PromoListQuery(q) ==
  /\ pc[q] = "promolist_query"
  /\ loc' = [loc EXCEPT ![q].res = PromoListResult(loc[q].kind, loc[q].key.q)]
  /\ Goto(q, "read_set")
  /\ UNCHANGED <<orders, brands, carts, promos, nextId, products, cache, last>>

\* getById: getCache(generateCacheKey({resource: `${RESOURCE}:${id}`, query: {...}}))
PromoGetById(q, k, id, includeProducts) ==
  /\ Idle(q)
  /\ LET key == generateCacheKey(<<k, IdStr(id)>>, [includeProducts |-> includeProducts])
         l == [IdleLoc EXCEPT !.op = "promo.getById", !.kind = k, !.id = id, !.key = key]
     IN IF Present(cache, key)
        THEN Return(q, [l EXCEPT !.res = getCache(cache, key), !.hit = TRUE])
        ELSE /\ loc' = [loc EXCEPT ![q] = l]
             /\ Goto(q, "promoget_query")
             /\ UNCHANGED last
  /\ UNCHANGED <<orders, brands, carts, promos, nextId, products, cache>>

\* getById: findById(id) ... lean(); NotFound when there is none
PromoGetByIdQuery(q) ==
  /\ pc[q] = "promoget_query"
  /\ IF ~Live(loc[q].kind, loc[q].id)
     THEN Throw(q, loc[q], "NotFound")
     ELSE /\ loc' = [loc EXCEPT ![q].res =
                       PromoView(loc[q].kind, loc[q].id, loc[q].key.q.includeProducts)]
          /\ Goto(q, "read_set")
          /\ UNCHANGED last
  /\ UNCHANGED <<orders, brands, carts, promos, nextId, products, cache>>

\* ------------------------------------------------------------ strings
\* a string is the sequence of its characters
Lower(c) == CASE c = "A" -> "a" [] c = "B" -> "b" [] OTHER -> c

toLowerCase(s) == [i \in 1..Len(s) |-> Lower(s[i])]

RECURSIVE StripLeading(_, _)
StripLeading(s, c) ==
  IF s # <<>> /\ Head(s) = c THEN StripLeading(Tail(s), c) ELSE s

\* every leading and trailing occurrence of c is removed
Strip(s, c) == Reverse(StripLeading(Reverse(StripLeading(s, c)), c))

trim(s) == Strip(s, " ")

IsAlphanumeric(c) == c \in {"a", "b", "A", "B", "0", "1"}

\* each maximal run of non-alphanumeric characters becomes one hyphen
RECURSIVE CollapseRuns(_, _)
CollapseRuns(s, inRun) ==
  IF s = <<>> THEN <<>>
  ELSE IF IsAlphanumeric(Head(s))
       THEN <<Head(s)>> \o CollapseRuns(Tail(s), FALSE)
       ELSE (IF inRun THEN <<>> ELSE <<"-">>) \o CollapseRuns(Tail(s), TRUE)

\* utils/generate-slug: lowercase, non-alphanumeric runs collapsed to a single
\* hyphen, leading and trailing hyphens stripped
utilsGenerateSlug(name) == Strip(CollapseRuns(toLowerCase(name), FALSE), "-")

\* ------------------------------------------------------------ BrandService
NoBrand == [state |-> "none", name |-> <<>>, slug |-> <<>>, is_active |-> TRUE]

\* a field a request body does not carry
Absent == <<>>

\* BrandSchema setters: name is trimmed, slug is lowercased and trimmed
CastName(name) == trim(name)
CastSlug(slug) == trim(toLowerCase(slug))

LiveBrands == {b \in BrandIds : brands[b].state = "live"}

\* findOne({name}) / findOne({name, _id: {$ne: id}}); id 0 excludes none
NameExists(name, id) ==
  \E b \in LiveBrands \ {id} : brands[b].name = CastName(name)

\* findOne({slug}) / findOne({slug, _id: {$ne: id}})
SlugExists(slug, id) ==
  \E b \in LiveBrands \ {id} : brands[b].slug = CastSlug(slug)

\* the unique indexes on name and slug
BrandDuplicateKey(doc, id) ==
  \E b \in LiveBrands \ {id} : brands[b].name = doc.name \/ brands[b].slug = doc.slug

\* data.slug = generateSlug(data.name) when there is a name and no slug
WithSlug(data) ==
  IF data.slug = Absent /\ data.name # Absent
  THEN [data EXCEPT !.slug = utilsGenerateSlug(data.name)]
  ELSE data

\* the document findByIdAndUpdate(id, data) leaves: the fields data carries are set
BrandApply(doc, data) ==
  [doc EXCEPT !.name = IF data.name = Absent THEN @ ELSE CastName(data.name),
              !.slug = IF data.slug = Absent THEN @ ELSE CastSlug(data.slug),
              !.is_active = IF data.is_active = {} THEN @
                            ELSE (CHOOSE b \in data.is_active : TRUE)]

\* create: findOne({name}); Conflict when a brand has the name
BrandCreate(q, data) ==
  /\ Idle(q)
  /\ nextId["brands"] <= MaxBrands
  /\ LET l == [IdleLoc EXCEPT !.op = "brand.create", !.data = WithSlug(data)]
     IN IF NameExists(data.name, 0)
        THEN Throw(q, l, "Conflict")
        ELSE /\ loc' = [loc EXCEPT ![q] = l]
             /\ Goto(q, "bcreate_slug")
             /\ UNCHANGED last
  /\ UNCHANGED <<orders, brands, carts, promos, nextId, products, cache>>

\* create: findOne({slug}); Conflict when a brand has the slug
BrandCreateSlug(q) ==
  /\ pc[q] = "bcreate_slug"
  /\ IF SlugExists(loc[q].data.slug, 0)
     THEN Throw(q, loc[q], "Conflict")
     ELSE /\ Goto(q, "bcreate_insert")
          /\ UNCHANGED <<loc, last>>
  /\ UNCHANGED <<orders, brands, carts, promos, nextId, products, cache>>

\* create: BrandModel.create(data); name and slug are required and unique
BrandCreateInsert(q) ==
  /\ pc[q] = "bcreate_insert"
  /\ nextId["brands"] <= MaxBrands
  /\ LET doc == BrandApply([NoBrand EXCEPT !.state = "live"], loc[q].data)
     IN IF doc.name = <<>> \/ doc.slug = <<>>
        THEN /\ Throw(q, loc[q], "ValidationError")
             /\ UNCHANGED <<brands, nextId>>
        ELSE IF BrandDuplicateKey(doc, 0)
        THEN /\ Throw(q, loc[q], "DuplicateKey")
             /\ UNCHANGED <<brands, nextId>>
        ELSE /\ brands' = [brands EXCEPT ![nextId["brands"]] = doc]
             /\ nextId' = [nextId EXCEPT !["brands"] = @ + 1]
             /\ loc' = [loc EXCEPT ![q].id = nextId["brands"],
                                   ![q].res = [_id |-> nextId["brands"]]]
             /\ Goto(q, "brand_inval")
             /\ UNCHANGED last
  /\ UNCHANGED <<orders, carts, promos, products, cache>>

\* update: findOne({slug, _id: {$ne: id}}); Conflict when another brand has the slug
BrandSlugCheck(q, l) ==
  IF SlugExists(l.data.slug, l.id)
  THEN Throw(q, l, "Conflict")
  ELSE /\ loc' = [loc EXCEPT ![q] = l]
       /\ Goto(q, IF l.data.name # Absent THEN "bupdate_name" ELSE "bupdate_write")
       /\ UNCHANGED last

\* update: findOne({name, _id: {$ne: id}}); Conflict when another brand has the name
BrandNameCheck(q, l) ==
  IF NameExists(l.data.name, l.id)
  THEN Throw(q, l, "Conflict")
  ELSE /\ loc' = [loc EXCEPT ![q] = l]
       /\ Goto(q, "bupdate_write")
       /\ UNCHANGED last

\* update: findByIdAndUpdate(id, data, {new: true}); NotFound when it returns null
BrandWrite(q, l) ==
  IF brands[l.id].state # "live"
  THEN /\ Throw(q, l, "NotFound")
       /\ UNCHANGED brands
  ELSE IF BrandDuplicateKey(BrandApply(brands[l.id], l.data), l.id)
  THEN /\ Throw(q, l, "DuplicateKey")
       /\ UNCHANGED brands
  ELSE /\ brands' = [brands EXCEPT ![l.id] = BrandApply(@, l.data)]
       /\ loc' = [loc EXCEPT ![q] = [l EXCEPT !.res = BrandApply(brands[l.id], l.data)]]
       /\ Goto(q, "brand_invald")
       /\ UNCHANGED last

\* update(id, data): the slug is derived, then the first await the data calls for
BrandUpdate(q, id, data) ==
  /\ Idle(q)
  /\ LET l == [IdleLoc EXCEPT !.op = "brand.update", !.id = id,
                              !.data = WithSlug(data)]
     IN IF l.data.slug # Absent THEN BrandSlugCheck(q, l) /\ UNCHANGED brands
        ELSE IF l.data.name # Absent THEN BrandNameCheck(q, l) /\ UNCHANGED brands
        ELSE BrandWrite(q, l)
  /\ UNCHANGED <<orders, carts, promos, nextId, products, cache>>

BrandUpdateName(q) ==
  /\ pc[q] = "bupdate_name"
  /\ BrandNameCheck(q, loc[q])
  /\ UNCHANGED <<orders, brands, carts, promos, nextId, products, cache>>

BrandUpdateWrite(q) ==
  /\ pc[q] = "bupdate_write"
  /\ BrandWrite(q, loc[q])
  /\ UNCHANGED <<orders, carts, promos, nextId, products, cache>>

\* changeStatus(id, is_active) == update(id, {is_active})
BrandChangeStatus(q, id, is_active) ==
  BrandUpdate(q, id, [name |-> Absent, slug |-> Absent, is_active |-> {is_active}])

\* remove: findByIdAndDelete(id); NotFound when it returns null
BrandRemove(q, id) ==
  /\ Idle(q)
  /\ LET l == [IdleLoc EXCEPT !.op = "brand.remove", !.id = id]
     IN IF brands[id].state # "live"
        THEN /\ Throw(q, l, "NotFound")
             /\ UNCHANGED brands
        ELSE /\ brands' = [brands EXCEPT ![id] = [NoBrand EXCEPT !.state = "deleted"]]
             /\ loc' = [loc EXCEPT ![q] = [l EXCEPT !.res = [_id |-> id]]]
             /\ Goto(q, "brand_invald")
             /\ UNCHANGED last
  /\ UNCHANGED <<orders, carts, promos, nextId, products, cache>>

\* update, remove: deleteCache(generateCacheKey({resource: `${BRAND_RESOURCE}:${id}`}))
BrandInvalDetail(q) ==
  /\ pc[q] = "brand_invald"
  /\ cache' = deleteCache(cache, generateCacheKey(<<"brands", IdStr(loc[q].id)>>, NoQuery))
  /\ Goto(q, "brand_inval")
  /\ UNCHANGED <<orders, brands, carts, promos, nextId, products, loc, last>>

\* create, update, remove: deleteCache(generateCacheKey({resource: BRAND_RESOURCE}));
\* return
BrandInval(q) ==
  /\ pc[q] = "brand_inval"
  /\ cache' = deleteCache(cache, generateCacheKey(<<"brands">>, NoQuery))
  /\ Return(q, loc[q])
  /\ UNCHANGED <<orders, brands, carts, promos, nextId, products>>

\* filter.is_active is set when the query carries a boolean
BrandFilter(query) ==
  {b \in LiveBrands : query.is_active = {} \/ brands[b].is_active \in query.is_active}

\* the key's query: {...filter, fields, page, limit, sort}
BrandKeyQuery(query) ==
  [is_active |-> query.is_active, page |-> query.page, limit |-> query.limit,
   sort |-> [createdAt |-> IF query.sortOrder = "asc" THEN 1 ELSE -1]]

\* find(filter).skip().limit().sort() with countDocuments(filter)
BrandListResult(kq) ==
  LET ids == SkipLimit(SortByCreatedAt(BrandFilter(kq), kq.sort.createdAt),
                       kq.page, kq.limit)
  IN [brands |-> [i \in 1..Len(ids) |->
                    [_id |-> ids[i], name |-> brands[ids[i]].name,
                     slug |-> brands[ids[i]].slug,
                     is_active |-> brands[ids[i]].is_active]],
      pagination |-> Pagination(Cardinality(BrandFilter(kq)), kq.page, kq.limit)]

\* list: getCache(generateCacheKey({resource: BRAND_RESOURCE, query: {...}}))
BrandList(q, query) ==
  /\ Idle(q)
  /\ LET key == generateCacheKey(<<"brands">>, BrandKeyQuery(query))
         l == [IdleLoc EXCEPT !.op = "brand.list", !.key = key]
     IN IF Present(cache, key)
        THEN Return(q, [l EXCEPT !.res = getCache(cache, key), !.hit = TRUE])
        ELSE /\ loc' = [loc EXCEPT ![q] = l]
             /\ Goto(q, "blist_query")
             /\ UNCHANGED last
  /\ UNCHANGED <<orders, brands, carts, promos, nextId, products, cache>>

\* list: the persistence query
BrandListQuery(q) ==
  /\ pc[q] = "blist_query"
  /\ loc' = [loc EXCEPT ![q].res = BrandListResult(loc[q].key.q)]
  /\ Goto(q, "read_set")
  /\ UNCHANGED <<orders, brands, carts, promos, nextId, products, cache, last>>

\* ------------------------------------------------------------ ProductService
NoProduct ==
  [exists |-> FALSE, is_active |-> TRUE, campaigns |-> <<>>, offers |-> <<>>,
   name |-> <<>>, slug |-> <<>>, variants |-> <<>>, reviews |-> <<>>]

FreshProduct == [NoProduct EXCEPT !.exists = TRUE]

\* the seeded product p: its name and slug are its own
SeedProduct(p) == [FreshProduct EXCEPT !.name = <<IdStr(p)>>, !.slug = <<IdStr(p)>>]

\* populate(path): each referenced id is replaced by the stored record's selected
\* fields; an id with no stored record drops out
Populate(k, ids) ==
  LET liveIds == SelectSeq(ids, LAMBDA id : id \in PromoIds /\ Live(k, id))
  IN [i \in 1..Len(liveIds) |->
        [_id |-> liveIds[i], is_active |-> promos[k][liveIds[i]].is_active]]

Unpopulated(ids) == [i \in 1..Len(ids) |-> [_id |-> ids[i], is_active |-> TRUE]]

\* one product as a read returns it
ProductView(p, includeCampaigns, includeOffers) ==
  [_id |-> p,
   is_active |-> products[p].is_active,
   campaigns |-> IF includeCampaigns = "true"
                 THEN Populate("campaigns", products[p].campaigns)
                 ELSE Unpopulated(products[p].campaigns),
   offers |-> IF includeOffers = "true"
              THEN Populate("offers", products[p].offers)
              ELSE Unpopulated(products[p].offers)]

\* filter.is_active is set when the query carries a boolean
ProductFilter(query) ==
  {p \in ProductIds : /\ products[p].exists
                      /\ (query.is_active = {} \/ products[p].is_active \in query.is_active)}

\* find(filter) ... lean() with countDocuments(filter)
ProductListResult(query) ==
  LET ids == SkipLimit(SortByCreatedAt(ProductFilter(query),
                                       IF query.sortOrder = "desc" THEN -1 ELSE 1),
                       query.page, query.limit)
  IN [data |-> [i \in 1..Len(ids) |->
                  ProductView(ids[i], query.includeCampaigns, query.includeOffers)],
      pagination |-> Pagination(Cardinality(ProductFilter(query)), query.page, query.limit)]

\* list: getCache(generateCacheKey({resource: 'products:list', query}))
ProductList(q, query) ==
  /\ Idle(q)
  /\ LET key == generateCacheKey(<<"products", "list">>, query)
         l == [IdleLoc EXCEPT !.op = "product.list", !.key = key]
     IN IF Present(cache, key)
        THEN Return(q, [l EXCEPT !.res = getCache(cache, key), !.hit = TRUE])
        ELSE /\ loc' = [loc EXCEPT ![q] = l]
             /\ Goto(q, "plist_query")
             /\ UNCHANGED last
  /\ UNCHANGED <<orders, brands, carts, promos, nextId, products, cache>>

\* list: the persistence query
ProductListQuery(q) ==
  /\ pc[q] = "plist_query"
  /\ loc' = [loc EXCEPT ![q].res = ProductListResult(loc[q].key.q)]
  /\ Goto(q, "read_set")
  /\ UNCHANGED <<orders, brands, carts, promos, nextId, products, cache, last>>

\* a read-through that returns without storing what it read
ReadSkipCache(q) ==
  /\ pc[q] = "read_set"
  /\ Return(q, loc[q])
  /\ UNCHANGED <<orders, brands, carts, promos, nextId, products, cache>>

\* every read-through ends: setCache(cacheKey, result); return result
ReadSetCache(q) ==
  /\ pc[q] = "read_set"
  /\ cache' = setCache(cache, loc[q].key, loc[q].res)
  /\ Return(q, loc[q])
  /\ UNCHANGED <<orders, brands, carts, promos, nextId, products>>

\* getById: getCache(generateCacheKey({resource: 'product', query: {id, ...}}))
ProductGetById(q, id, includeCampaigns, includeOffers) ==
  /\ Idle(q)
  /\ LET key == generateCacheKey(<<"product">>,
                  [id |-> id, includeCampaigns |-> includeCampaigns,
                   includeOffers |-> includeOffers])
         l == [IdleLoc EXCEPT !.op = "product.getById", !.id = id, !.key = key]
     IN IF Present(cache, key)
        THEN Return(q, [l EXCEPT !.res = getCache(cache, key), !.hit = TRUE])
        ELSE /\ loc' = [loc EXCEPT ![q] = l]
             /\ Goto(q, "pget_query")
             /\ UNCHANGED last
  /\ UNCHANGED <<orders, brands, carts, promos, nextId, products, cache>>

\* getById: findById(id) ... lean(); 'Product not found' when there is none
ProductGetByIdQuery(q) ==
  /\ pc[q] = "pget_query"
  /\ LET id == loc[q].id
     IN IF ~products[id].exists
        THEN Throw(q, loc[q], "Product not found")
        ELSE /\ loc' = [loc EXCEPT ![q].res =
                          ProductView(id, loc[q].key.q.includeCampaigns,
                                      loc[q].key.q.includeOffers)]
             /\ Goto(q, "read_set")
             /\ UNCHANGED last
  /\ UNCHANGED <<orders, brands, carts, promos, nextId, products, cache>>

\* a product mutation's first await: findByIdAndUpdate / findByIdAndDelete;
\* 'Product not found' when it returns null
ProductWrite(q, op, id, doc) ==
  /\ Idle(q)
  /\ LET l == [IdleLoc EXCEPT !.op = op, !.id = id]
     IN IF ~products[id].exists
        THEN /\ Throw(q, l, "Product not found")
             /\ UNCHANGED products
        ELSE /\ products' = [products EXCEPT ![id] = doc]
             /\ loc' = [loc EXCEPT ![q] = [l EXCEPT !.res = doc]]
             /\ Goto(q, "prod_invalp")
             /\ UNCHANGED last
  /\ UNCHANGED <<orders, brands, carts, promos, nextId, cache>>

\* changeStatus: findByIdAndUpdate(id, {is_active})
ProductChangeStatus(q, id, is_active) ==
  ProductWrite(q, "product.changeStatus", id, [products[id] EXCEPT !.is_active = is_active])

\* remove: findByIdAndDelete(id)
ProductRemove(q, id) == ProductWrite(q, "product.remove", id, NoProduct)

\* linkCampaigns / linkOffers: $addToSet: {[k]: {$each: ids}}
ProductLink(q, k, id, ids) ==
  ProductWrite(q, "product.link", id, [products[id] EXCEPT ![k] = AddEachToSet(@, ids)])

\* unlinkCampaign / unlinkOffer: $pull: {[k]: promoId}
ProductUnlink(q, k, id, promoId) ==
  ProductWrite(q, "product.unlink", id, [products[id] EXCEPT ![k] = Pull(@, promoId)])

\* every product mutation then: deleteCache('products:list:*')
ProductInvalList(q) ==
  /\ pc[q] = "prod_invalp"
  /\ cache' = deleteCachePattern(cache, <<"products", "list">>)
  /\ Goto(q, "prod_invald")
  /\ UNCHANGED <<orders, brands, carts, promos, nextId, products, loc, last>>

\* and: deleteCache(`product:${id}`); return the product
ProductInvalDetail(q) ==
  /\ pc[q] = "prod_invald"
  /\ cache' = deleteCache(cache, generateCacheKey(<<"product", IdStr(loc[q].id)>>, NoQuery))
  /\ Return(q, loc[q])
  /\ UNCHANGED <<orders, brands, carts, promos, nextId, products>>

\* ------------------------------------------------------------ CartService
\* CartModel and WishlistModel hold one document per user: `user` is a unique
\* index.  WishlistService.getWishlist is CartService.getCart over WishlistModel.
DocsOf(coll, user) == {d \in carts[coll] : d.user = user}

\* an insert that no unique index guards
ModelCreateUnguarded(coll, user) == FALSE

\* Model.create: the duplicate-key error of the unique index on `user`
ModelCreateDuplicate(coll, user) == DocsOf(coll, user) # {}

\* a schema that accepts any number as a quantity
AnyQuantity(n) == TRUE

\* CartItemSchema.quantity: {type: Number, required: true, min: 1}
ValidQuantity(n) == n >= 1

NewDoc(coll, user, items) ==
  [_id |-> nextId[coll], user |-> user, items |-> items, __v |-> 0]

\* Model.create({user, items})
ModelCreate(q, coll, user, items, next) ==
  /\ nextId[coll] <= MaxCarts
  /\ nextId["items"] + Len(items) <= MaxItems + 1
  /\ IF \E i \in 1..Len(items) : ~ValidQuantity(items[i].quantity)
     THEN /\ Throw(q, loc[q], "ValidationError")
          /\ UNCHANGED <<carts, nextId>>
     ELSE IF ModelCreateDuplicate(coll, user)
     THEN /\ Throw(q, loc[q], "DuplicateKey")
          /\ UNCHANGED <<carts, nextId>>
     ELSE /\ carts' = [carts EXCEPT ![coll] = @ \cup {NewDoc(coll, user, items)}]
          /\ nextId' = [nextId EXCEPT ![coll] = @ + 1, !["items"] = @ + Len(items)]
          /\ loc' = [loc EXCEPT ![q].res = NewDoc(coll, user, items),
                                ![q].created = TRUE]
          /\ Goto(q, next)
          /\ UNCHANGED last

\* getCart / getWishlist: getCache(generateCacheKey({resource: `${RESOURCE}:${userId}`,
\* query: {...}}))
GetOrCreate(q, coll, op, user, query) ==
  /\ Idle(q)
  /\ LET key == generateCacheKey(<<coll, IdStr(user)>>, query)
         l == [IdleLoc EXCEPT !.op = op, !.kind = coll, !.user = user, !.key = key]
     IN IF Present(cache, key)
        THEN Return(q, [l EXCEPT !.res = getCache(cache, key), !.hit = TRUE])
        ELSE /\ loc' = [loc EXCEPT ![q] = l]
             /\ Goto(q, "cart_find")
             /\ UNCHANGED last
  /\ UNCHANGED <<orders, brands, carts, promos, nextId, products, cache>>

CartGetCart(q, user, query) == GetOrCreate(q, "cart", "cart.getCart", user, query)

WishlistGetWishlist(q, user, query) ==
  GetOrCreate(q, "wishlist", "wishlist.getWishlist", user, query)

\* a getCart that looks for no cart before it creates one
CartGetCartFindNone(q) ==
  /\ pc[q] = "cart_find"
  /\ Goto(q, "cart_create")
  /\ UNCHANGED <<orders, brands, carts, promos, nextId, products, cache, loc, last>>

\* getCart: findOne({user: userId}) ... lean()
CartGetCartFind(q) ==
  /\ pc[q] = "cart_find"
  /\ LET found == DocsOf(loc[q].kind, loc[q].user)
     IN IF found = {}
        THEN /\ Goto(q, "cart_create")
             /\ UNCHANGED loc
        ELSE /\ \E d \in found : loc' = [loc EXCEPT ![q].res = d]
             /\ Goto(q, "read_set")
  /\ UNCHANGED <<orders, brands, carts, promos, nextId, products, cache, last>>

\* getCart: CartModel.create({user: userId, items: []}) when there is no cart
CartGetCartCreate(q) ==
  /\ pc[q] = "cart_create"
  /\ ModelCreate(q, loc[q].kind, loc[q].user, <<>>, "read_set")
  /\ UNCHANGED <<orders, brands, promos, products, cache>>

\* an item as the model builds it: the subdocument gets its own _id
NewItem(product, quantity) ==
  [_id |-> nextId["items"], product |-> product, quantity |-> quantity]

\* an edit that pushes an item whatever the cart holds
AddedItemsPush(items, product, quantity) ==
  Append(items, NewItem(product, quantity))

\* the items after addItem's in-memory edit: the quantity of the item that holds
\* the product is raised, or an item is pushed
AddedItems(items, product, quantity) ==
  IF \E i \in 1..Len(items) : items[i].product = product
  THEN LET i == CHOOSE j \in 1..Len(items) :
                  /\ items[j].product = product
                  /\ \A h \in 1..(j - 1) : items[h].product # product
       IN [items EXCEPT ![i].quantity = @ + quantity]
  ELSE Append(items, NewItem(product, quantity))

\* isValidMongoId: an identifier the store can cast to an ObjectId; the ids the
\* store hands out are 1, 2, ..., and 0 stands for a string that is no ObjectId
isValidMongoId(id) == id > 0

\* an addItem that looks the cart up whatever the identifiers are
CartAddItemUnchecked(q, user, product, quantity) ==
  /\ Idle(q)
  /\ LET l == [IdleLoc EXCEPT !.op = "cart.addItem", !.kind = "cart", !.user = user,
                              !.id = product, !.data = [quantity |-> quantity]]
         found == DocsOf("cart", user)
     IN IF found = {}
        THEN /\ loc' = [loc EXCEPT ![q] = l]
             /\ Goto(q, "add_create")
        ELSE /\ \E d \in found : loc' = [loc EXCEPT ![q] = [l EXCEPT !.doc = d]]
             /\ Goto(q, "add_save")
  /\ UNCHANGED <<orders, brands, carts, promos, nextId, products, cache, last>>

\* addItem: BadRequest on a malformed user or product id; findOne({user: userId})
CartAddItem(q, user, product, quantity) ==
  /\ Idle(q)
  /\ LET l == [IdleLoc EXCEPT !.op = "cart.addItem", !.kind = "cart", !.user = user,
                              !.id = product, !.data = [quantity |-> quantity]]
         found == DocsOf("cart", user)
     IN IF ~isValidMongoId(user) \/ ~isValidMongoId(product)
        THEN Throw(q, l, "BadRequest")
        ELSE IF found = {}
        THEN /\ loc' = [loc EXCEPT ![q] = l]
             /\ Goto(q, "add_create")
             /\ UNCHANGED last
        ELSE /\ \E d \in found : loc' = [loc EXCEPT ![q] = [l EXCEPT !.doc = d]]
             /\ Goto(q, "add_save")
             /\ UNCHANGED last
  /\ UNCHANGED <<orders, brands, carts, promos, nextId, products, cache>>

\* addItem: CartModel.create({user, items: [{product, quantity}]}) when there is no cart
CartAddItemCreate(q) ==
  /\ pc[q] = "add_create"
  /\ ModelCreate(q, "cart", loc[q].user,
                 <<NewItem(loc[q].id, loc[q].data.quantity)>>,
                 "add_invalu")
  /\ UNCHANGED <<orders, brands, promos, products, cache>>

\* the position of the item that cart.items.find(...) returns, 0 when there is none
FindItem(items, product) ==
  IF \E i \in 1..Len(items) : items[i].product = product
  THEN CHOOSE i \in 1..Len(items) :
         /\ items[i].product = product
         /\ \A h \in 1..(i - 1) : items[h].product # product
  ELSE 0

\* a save() that increments the stored quantity by the amount of the edit
SetQuantityAtomic(stored, read, i, value) ==
  IF stored._id = read._id /\ stored.__v = read.__v /\ i <= Len(stored.items)
  THEN [stored EXCEPT !.items[i].quantity = @ + (value - read.items[i].quantity)]
  ELSE stored

\* the document in the store after save() of an edited quantity: the update
\* {$set: {'items.i.quantity': value}} with the filter {_id, __v}
SetQuantity(stored, read, i, value) ==
  IF stored._id = read._id /\ stored.__v = read.__v /\ i <= Len(stored.items)
  THEN [stored EXCEPT !.items[i].quantity = value]
  ELSE stored

\* the document in the store after save() of a pushed item: the update
\* {$push: {items: {$each: [item]}}, $inc: {__v: 1}} with the filter {_id}
PushItem(stored, read, item) ==
  IF stored._id = read._id
  THEN [stored EXCEPT !.items = Append(@, item), !.__v = @ + 1]
  ELSE stored

\* addItem: cart.save() sends the edit of the document read
CartAddItemSave(q) ==
  /\ pc[q] = "add_save"
  /\ LET read == loc[q].doc
         product == loc[q].id
         quantity == loc[q].data.quantity
         i == FindItem(read.items, product)
         edited == AddedItems(read.items, product, quantity)
     IN IF ~ValidQuantity(edited[IF i > 0 THEN i ELSE Len(edited)].quantity)
        THEN /\ Throw(q, loc[q], "ValidationError")
             /\ UNCHANGED <<carts, nextId>>
        ELSE IF i > 0 /\ edited = read.items
        THEN /\ loc' = [loc EXCEPT ![q].res = read]
             /\ Goto(q, "add_invalu")
             /\ UNCHANGED <<carts, nextId, last>>
        ELSE IF i > 0
        THEN IF \E d \in carts["cart"] : d._id = read._id /\ d.__v = read.__v
             THEN /\ carts' = [carts EXCEPT !["cart"] =
                                 {SetQuantity(d, read, i, edited[i].quantity) : d \in @}]
                  /\ loc' = [loc EXCEPT ![q].res = [read EXCEPT !.items = edited]]
                  /\ Goto(q, "add_invalu")
                  /\ UNCHANGED <<nextId, last>>
             ELSE /\ Throw(q, loc[q], "VersionError")
                  /\ UNCHANGED <<carts, nextId>>
        ELSE /\ nextId["items"] <= MaxItems
             /\ carts' = [carts EXCEPT !["cart"] =
                            {PushItem(d, read, edited[Len(edited)]) : d \in @}]
             /\ nextId' = [nextId EXCEPT !["items"] = @ + 1]
             /\ loc' = [loc EXCEPT ![q].res =
                          [read EXCEPT !.items = edited, !.__v = @ + 1]]
             /\ Goto(q, "add_invalu")
             /\ UNCHANGED last
  /\ UNCHANGED <<orders, brands, promos, products, cache>>

\* addItem, updateItem, removeItem, clearCart:
\* deleteCache(`${CART_RESOURCE}:${userId}:*`)
CartAddItemInvalUser(q) ==
  /\ pc[q] = "add_invalu"
  /\ cache' = deleteCachePattern(cache, <<"cart", IdStr(loc[q].user)>>)
  /\ Goto(q, "add_invala")
  /\ UNCHANGED <<orders, brands, carts, promos, nextId, products, loc, last>>

\* an invalidation of the one key "cart:all" before the return
CartAddItemInvalAllKey(q) ==
  /\ pc[q] = "add_invala"
  /\ cache' = deleteCache(cache, generateCacheKey(<<"cart", "all">>, NoQuery))
  /\ Return(q, loc[q])
  /\ UNCHANGED <<orders, brands, carts, promos, nextId, products>>

\* addItem, updateItem, removeItem, clearCart: deleteCache(`${CART_RESOURCE}:all:*`);
\* return
CartAddItemInvalAll(q) ==
  /\ pc[q] = "add_invala"
  /\ cache' = deleteCachePattern(cache, <<"cart", "all">>)
  /\ Return(q, loc[q])
  /\ UNCHANGED <<orders, brands, carts, promos, nextId, products>>

\* ------------------------------------------------------------ CartService: item edits
\* the position of an item that has the product as its identifier, 0 when none has
FindItemByProduct(items, itemId) == FindItem(items, itemId)

\* cart.items.find((i) => i._id?.toString() === itemId): the position of the item,
\* 0 when there is none
FindItemById(items, itemId) ==
  IF \E i \in 1..Len(items) : items[i]._id = itemId
  THEN CHOOSE i \in 1..Len(items) :
         /\ items[i]._id = itemId
         /\ \A h \in 1..(i - 1) : items[h]._id # itemId
  ELSE 0

\* updateItem, removeItem: BadRequest on a malformed id; findOne({user: userId});
\* NotFound when there is no cart or no item with the id
CartFindItem(q, l, next) ==
  LET found == DocsOf("cart", l.user)
  IN IF ~isValidMongoId(l.user) \/ ~isValidMongoId(l.id)
     THEN Throw(q, l, "BadRequest")
     ELSE IF found = {}
     THEN Throw(q, l, "NotFound")
     ELSE \E d \in found :
            IF FindItemById(d.items, l.id) = 0
            THEN Throw(q, l, "NotFound")
            ELSE /\ loc' = [loc EXCEPT ![q] = [l EXCEPT !.doc = d]]
                 /\ Goto(q, next)
                 /\ UNCHANGED last

CartUpdateItem(q, user, itemId, quantity) ==
  /\ Idle(q)
  /\ CartFindItem(q, [IdleLoc EXCEPT !.op = "cart.updateItem", !.kind = "cart",
                                     !.user = user, !.id = itemId,
                                     !.data = [quantity |-> quantity]], "upd_save")
  /\ UNCHANGED <<orders, brands, carts, promos, nextId, products, cache>>

\* updateItem: item.quantity = quantity; cart.save().  The schema wants
\* quantity >= 1; a quantity that is the stored one modifies nothing.
CartUpdateItemSave(q) ==
  /\ pc[q] = "upd_save"
  /\ LET read == loc[q].doc
         value == loc[q].data.quantity
         i == FindItemById(read.items, loc[q].id)
     IN IF ~ValidQuantity(value)
        THEN /\ Throw(q, loc[q], "ValidationError")
             /\ UNCHANGED carts
        ELSE IF value = read.items[i].quantity
        THEN /\ loc' = [loc EXCEPT ![q].res = read]
             /\ Goto(q, "add_invalu")
             /\ UNCHANGED <<carts, last>>
        ELSE IF \E d \in carts["cart"] : d._id = read._id /\ d.__v = read.__v
        THEN /\ carts' = [carts EXCEPT !["cart"] = {SetQuantity(d, read, i, value) : d \in @}]
             /\ loc' = [loc EXCEPT ![q].res = [read EXCEPT !.items[i].quantity = value]]
             /\ Goto(q, "add_invalu")
             /\ UNCHANGED last
        ELSE /\ Throw(q, loc[q], "VersionError")
             /\ UNCHANGED carts
  /\ UNCHANGED <<orders, brands, promos, nextId, products, cache>>

\* the document in the store after save() of a replaced items array: the update
\* {$set: {items}, $inc: {__v: 1}} with the filter {_id, __v}
SetItems(stored, read, items) ==
  IF stored._id = read._id /\ stored.__v = read.__v
  THEN [stored EXCEPT !.items = items, !.__v = @ + 1]
  ELSE stored

\* a splice that drops the last item
SpliceLast(items, i) == SubSeq(items, 1, Len(items) - 1)

\* cart.items.splice(itemIndex, 1)
Splice(items, i) == SubSeq(items, 1, i - 1) \o SubSeq(items, i + 1, Len(items))

\* save() of the document read with its items replaced
SaveItems(q, items, res) ==
  LET read == loc[q].doc
  IN IF \E d \in carts["cart"] : d._id = read._id /\ d.__v = read.__v
     THEN /\ carts' = [carts EXCEPT !["cart"] = {SetItems(d, read, items) : d \in @}]
          /\ loc' = [loc EXCEPT ![q].res = res]
          /\ Goto(q, "add_invalu")
          /\ UNCHANGED last
     ELSE /\ Throw(q, loc[q], "VersionError")
          /\ UNCHANGED carts

CartRemoveItem(q, user, itemId) ==
  /\ Idle(q)
  /\ CartFindItem(q, [IdleLoc EXCEPT !.op = "cart.removeItem", !.kind = "cart",
                                     !.user = user, !.id = itemId], "rem_save")
  /\ UNCHANGED <<orders, brands, carts, promos, nextId, products, cache>>

\* removeItem: cart.items.splice(itemIndex, 1); cart.save()
CartRemoveItemSave(q) ==
  /\ pc[q] = "rem_save"
  /\ LET read == loc[q].doc
         items == Splice(read.items, FindItemById(read.items, loc[q].id))
     IN SaveItems(q, items, [read EXCEPT !.items = items, !.__v = @ + 1])
  /\ UNCHANGED <<orders, brands, promos, nextId, products, cache>>

\* clearCart: BadRequest on a malformed id; findOne({user: userId}); NotFound when
\* there is no cart
CartClearCart(q, user) ==
  /\ Idle(q)
  /\ LET l == [IdleLoc EXCEPT !.op = "cart.clearCart", !.kind = "cart", !.user = user]
         found == DocsOf("cart", user)
     IN IF ~isValidMongoId(user)
        THEN Throw(q, l, "BadRequest")
        ELSE IF found = {}
        THEN Throw(q, l, "NotFound")
        ELSE /\ \E d \in found : loc' = [loc EXCEPT ![q] = [l EXCEPT !.doc = d]]
             /\ Goto(q, "clear_save")
             /\ UNCHANGED last
  /\ UNCHANGED <<orders, brands, carts, promos, nextId, products, cache>>

\* a clearCart that saves the items it read
KeptItems(items) == items

\* cart.items = []
ClearedItems(items) == <<>>

\* clearCart: cart.items = []; cart.save().  An empty array assigned over an
\* empty array modifies nothing, and save() then sends nothing.
CartClearCartSave(q) ==
  /\ pc[q] = "clear_save"
  /\ LET read == loc[q].doc
         res == [message |-> "Cart cleared successfully"]
     IN IF ClearedItems(read.items) = read.items
        THEN /\ loc' = [loc EXCEPT ![q].res = res]
             /\ Goto(q, "add_invalu")
             /\ UNCHANGED <<carts, last>>
        ELSE SaveItems(q, ClearedItems(read.items), res)
  /\ UNCHANGED <<orders, brands, promos, nextId, products, cache>>

\* ------------------------------------------------------------ CartService.getAllCarts
\* getAllCarts: getCache(generateCacheKey({resource: `${CART_RESOURCE}:all`, query}))
CartGetAllCarts(q, query) ==
  /\ Idle(q)
  /\ LET key == generateCacheKey(<<"cart", "all">>, query)
         l == [IdleLoc EXCEPT !.op = "cart.getAllCarts", !.kind = "cart", !.key = key]
     IN IF Present(cache, key)
        THEN Return(q, [l EXCEPT !.res = getCache(cache, key), !.hit = TRUE])
        ELSE /\ loc' = [loc EXCEPT ![q] = l]
             /\ Goto(q, "carts_query")
             /\ UNCHANGED last
  /\ UNCHANGED <<orders, brands, carts, promos, nextId, products, cache>>

\* the orders in which find() without a sort may hand out the documents
Orderings(S) ==
  {s \in [1..Cardinality(S) -> S] : \A i, j \in 1..Cardinality(S) : s[i] = s[j] => i = j}

\* getAllCarts: Promise.all([find().skip(skip).limit(limit).lean(), countDocuments()])
CartGetAllCartsQuery(q) ==
  /\ pc[q] = "carts_query"
  /\ LET kq == loc[q].key.q
     IN \E found \in Orderings(carts["cart"]) :
          loc' = [loc EXCEPT ![q].res =
                    [data |-> SkipLimit(found, kq.page, kq.limit),
                     pagination |-> Pagination(Cardinality(carts["cart"]),
                                               kq.page, kq.limit)]]
  /\ Goto(q, "read_set")
  /\ UNCHANGED <<orders, brands, carts, promos, nextId, products, cache, last>>

\* ------------------------------------------------------------ ProductService: catalogue writes
IsWord(c) == IsAlphanumeric(c) \/ c = "_"

RECURSIVE CollapseHyphens(_)
CollapseHyphens(s) ==
  IF Len(s) < 2 THEN s
  ELSE IF s[1] = "-" /\ s[2] = "-" THEN CollapseHyphens(Tail(s))
       ELSE <<Head(s)>> \o CollapseHyphens(Tail(s))

\* replace(/^-|-$/g, ''): one hyphen at the start and one at the end
StripOneHyphen(s) ==
  LET a == IF s # <<>> /\ Head(s) = "-" THEN Tail(s) ELSE s
  IN IF a # <<>> /\ a[Len(a)] = "-" THEN SubSeq(a, 1, Len(a) - 1) ELSE a

\* a slug that turns every run of non-alphanumeric characters into a hyphen
generateSlugByRuns(name) == Strip(CollapseRuns(toLowerCase(name), FALSE), "-")

\* generateSlug: lowercase, trim, drop what is not a word character, a space or
\* a hyphen, spaces to hyphens, hyphen runs to one hyphen, hyphens at the ends
generateSlug(name) ==
  LET kept == SelectSeq(trim(toLowerCase(name)),
                        LAMBDA c : IsWord(c) \/ c = " " \/ c = "-")
      hyphened == [i \in 1..Len(kept) |-> IF kept[i] = " " THEN "-" ELSE kept[i]]
  IN StripOneHyphen(CollapseHyphens(hyphened))

\* createProductSchema.slug: min(1) and /^[a-z0-9]+(?:-[a-z0-9]+)*$/
UrlFriendly(slug) ==
  /\ slug # <<>>
  /\ \A i \in 1..Len(slug) : slug[i] \in {"a", "b", "0", "1", "-"}
  /\ slug[1] # "-" /\ slug[Len(slug)] # "-"
  /\ \A i \in 1..(Len(slug) - 1) : ~(slug[i] = "-" /\ slug[i + 1] = "-")

LiveProducts == {p \in ProductIds : products[p].exists}

\* findOne({slug}) / findOne({slug, _id: {$ne: id}}); id 0 excludes none
ProductSlugExists(slug, id) ==
  \E p \in LiveProducts \ {id} : products[p].slug = CastSlug(slug)

\* findOne({name}) / findOne({name, _id: {$ne: id}})
ProductNameExists(name, id) ==
  \E p \in LiveProducts \ {id} : products[p].name = CastName(name)

Skus(variants) == {variants[i].sku : i \in 1..Len(variants)}

\* findOne({'variants.sku': sku})
SkuExists(sku) == \E p \in LiveProducts : sku \in Skus(products[p].variants)

\* the unique indexes: slug, and variants.sku, a multikey index that compares the
\* keys of different documents only
ProductDuplicateKey(doc, id) ==
  \E p \in LiveProducts \ {id} :
    \/ products[p].slug = doc.slug
    \/ Skus(products[p].variants) \cap Skus(doc.variants) # {}

\* throw new Error(message): the error carries no status, only its message
ProductError(message) == message

\* create: generateSlug when the body has no slug; findOne({slug})
ProductCreate(q, data) ==
  /\ Idle(q)
  /\ LET withSlug == IF data.slug = Absent /\ data.name # Absent
                     THEN [data EXCEPT !.slug = generateSlug(data.name)]
                     ELSE data
         l == [IdleLoc EXCEPT !.op = "product.create", !.data = withSlug]
     IN IF withSlug.slug # Absent /\ ProductSlugExists(withSlug.slug, 0)
        THEN Throw(q, l, ProductError("Product with this slug already exists"))
        ELSE /\ loc' = [loc EXCEPT ![q] = l]
             /\ Goto(q, "pcreate_name")
             /\ UNCHANGED last
  /\ UNCHANGED <<orders, brands, carts, promos, nextId, products, cache>>

\* create: findOne({name})
ProductCreateName(q) ==
  /\ pc[q] = "pcreate_name"
  /\ IF loc[q].data.name # Absent /\ ProductNameExists(loc[q].data.name, 0)
     THEN Throw(q, loc[q], ProductError("Product with this name already exists"))
     ELSE /\ Goto(q, "pcreate_insert")
          /\ UNCHANGED <<loc, last>>
  /\ UNCHANGED <<orders, brands, carts, promos, nextId, products, cache>>

\* the stored variants of a body's variants: each gets an _id
NewVariants(skus, first) ==
  [i \in 1..Len(skus) |-> [_id |-> first + i - 1, sku |-> skus[i]]]

\* create: ProductModel.create(data)
ProductCreateInsert(q) ==
  /\ pc[q] = "pcreate_insert"
  /\ LET data == loc[q].data
         id == nextId["products"]
         doc == [FreshProduct EXCEPT
                   !.name = CastName(data.name), !.slug = CastSlug(data.slug),
                   !.variants = NewVariants(data.variants, nextId["variants"])]
     IN IF doc.name = <<>> \/ doc.slug = <<>>
        THEN /\ Throw(q, loc[q], "ValidationError")
             /\ UNCHANGED <<products, nextId>>
        ELSE IF ProductDuplicateKey(doc, 0)
        THEN /\ Throw(q, loc[q], "DuplicateKey")
             /\ UNCHANGED <<products, nextId>>
        ELSE /\ products' = [products EXCEPT ![id] = doc]
             /\ nextId' = [nextId EXCEPT !["products"] = @ + 1,
                                         !["variants"] = @ + Len(data.variants)]
             /\ loc' = [loc EXCEPT ![q].id = id, ![q].res = doc]
             /\ Goto(q, "pcreate_inval")
             /\ UNCHANGED last
  /\ UNCHANGED <<orders, brands, carts, promos, cache>>

\* create: deleteCache('products:list:*'); return product
ProductCreateInval(q) ==
  /\ pc[q] = "pcreate_inval"
  /\ cache' = deleteCachePattern(cache, <<"products", "list">>)
  /\ Return(q, loc[q])
  /\ UNCHANGED <<orders, brands, carts, promos, nextId, products>>

\* update: findById(id); generateSlug when the name changes
ProductUpdate(q, id, data) ==
  /\ Idle(q)
  /\ LET l == [IdleLoc EXCEPT !.op = "product.update", !.id = id]
         product == products[id]
         renamed == data.name # Absent /\ data.name # product.name
         withSlug == IF renamed THEN [data EXCEPT !.slug = generateSlug(data.name)]
                     ELSE data
     IN IF ~product.exists
        THEN Throw(q, l, ProductError("Product not found"))
        ELSE /\ loc' = [loc EXCEPT ![q] = [l EXCEPT !.data = withSlug, !.doc = product]]
             /\ Goto(q, "pupdate_slug")
             /\ UNCHANGED last
  /\ UNCHANGED <<orders, brands, carts, promos, nextId, products, cache>>

\* update: findOne({slug, _id: {$ne: id}}) when the slug changes
ProductUpdateSlug(q) ==
  /\ pc[q] = "pupdate_slug"
  /\ LET data == loc[q].data
     IN IF /\ data.slug # Absent
           /\ data.slug # loc[q].doc.slug
           /\ ProductSlugExists(data.slug, loc[q].id)
        THEN Throw(q, loc[q], ProductError("Product with this slug already exists"))
        ELSE /\ Goto(q, "pupdate_name")
             /\ UNCHANGED <<loc, last>>
  /\ UNCHANGED <<orders, brands, carts, promos, nextId, products, cache>>

\* update: findOne({name, _id: {$ne: id}}) when the name changes
ProductUpdateName(q) ==
  /\ pc[q] = "pupdate_name"
  /\ LET data == loc[q].data
     IN IF /\ data.name # Absent
           /\ data.name # loc[q].doc.name
           /\ ProductNameExists(data.name, loc[q].id)
        THEN Throw(q, loc[q], ProductError("Product with this name already exists"))
        ELSE /\ Goto(q, "pupdate_write")
             /\ UNCHANGED <<loc, last>>
  /\ UNCHANGED <<orders, brands, carts, promos, nextId, products, cache>>

\* update: findByIdAndUpdate(id, data, {new: true, runValidators: true})
ProductUpdateWrite(q) ==
  /\ pc[q] = "pupdate_write"
  /\ LET id == loc[q].id
         data == loc[q].data
         doc == [products[id] EXCEPT
                   !.name = IF data.name = Absent THEN @ ELSE CastName(data.name),
                   !.slug = IF data.slug = Absent THEN @ ELSE CastSlug(data.slug)]
     IN IF ~products[id].exists
        THEN /\ loc' = [loc EXCEPT ![q].res = NoRes]
             /\ Goto(q, "prod_invalp")
             /\ UNCHANGED <<products, last>>
        ELSE IF \E p \in LiveProducts \ {id} : products[p].slug = doc.slug
        THEN /\ Throw(q, loc[q], "DuplicateKey")
             /\ UNCHANGED products
        ELSE /\ products' = [products EXCEPT ![id] = doc]
             /\ loc' = [loc EXCEPT ![q].res = doc]
             /\ Goto(q, "prod_invalp")
             /\ UNCHANGED last
  /\ UNCHANGED <<orders, brands, carts, promos, nextId, cache>>

\* addVariant: findOne({'variants.sku': variantData.sku})
ProductAddVariant(q, id, sku) ==
  /\ Idle(q)
  /\ LET l == [IdleLoc EXCEPT !.op = "product.addVariant", !.id = id,
                              !.data = [sku |-> sku]]
     IN IF SkuExists(sku)
        THEN Throw(q, l, ProductError("Variant with this SKU already exists"))
        ELSE /\ loc' = [loc EXCEPT ![q] = l]
             /\ Goto(q, "variant_push")
             /\ UNCHANGED last
  /\ UNCHANGED <<orders, brands, carts, promos, nextId, products, cache>>

\* addVariant: findByIdAndUpdate(id, {$push: {variants: variantData}})
ProductAddVariantPush(q) ==
  /\ pc[q] = "variant_push"
  /\ LET id == loc[q].id
         doc == [products[id] EXCEPT
                   !.variants = @ \o NewVariants(<<loc[q].data.sku>>, nextId["variants"])]
     IN IF ~products[id].exists
        THEN /\ Throw(q, loc[q], ProductError("Product not found"))
             /\ UNCHANGED <<products, nextId>>
        ELSE IF ProductDuplicateKey(doc, id)
        THEN /\ Throw(q, loc[q], "DuplicateKey")
             /\ UNCHANGED <<products, nextId>>
        ELSE /\ products' = [products EXCEPT ![id] = doc]
             /\ nextId' = [nextId EXCEPT !["variants"] = @ + 1]
             /\ loc' = [loc EXCEPT ![q].res = doc]
             /\ Goto(q, "prod_invalp")
             /\ UNCHANGED last
  /\ UNCHANGED <<orders, brands, carts, promos, cache>>

\* {'variants._id': {$ne: variantId}}: no variant of the document has the _id
NoVariantHasId(variants, variantId) ==
  \A i \in 1..Len(variants) : variants[i]._id # variantId

\* updateVariant: findOne({'variants.sku': sku, $or: [{_id: {$ne: id}},
\* {_id: id, 'variants._id': {$ne: variantId}}]})
SkuTakenElsewhere(id, variantId, sku) ==
  \E p \in LiveProducts :
    /\ sku \in Skus(products[p].variants)
    /\ (p # id \/ NoVariantHasId(products[p].variants, variantId))

ProductUpdateVariant(q, id, variantId, sku) ==
  /\ Idle(q)
  /\ LET l == [IdleLoc EXCEPT !.op = "product.updateVariant", !.id = id,
                              !.data = [variantId |-> variantId, sku |-> sku]]
     IN IF SkuTakenElsewhere(id, variantId, sku)
        THEN Throw(q, l, ProductError("Variant with this SKU already exists"))
        ELSE /\ loc' = [loc EXCEPT ![q] = l]
             /\ Goto(q, "variant_set")
             /\ UNCHANGED last
  /\ UNCHANGED <<orders, brands, carts, promos, nextId, products, cache>>

\* updateVariant: findOneAndUpdate({_id: id, 'variants._id': variantId},
\* {$set: {'variants.$.sku': sku}})
ProductUpdateVariantSet(q) ==
  /\ pc[q] = "variant_set"
  /\ LET id == loc[q].id
         variantId == loc[q].data.variantId
         doc == [products[id] EXCEPT
                   !.variants = [i \in 1..Len(@) |->
                                   IF @[i]._id = variantId
                                   THEN [@[i] EXCEPT !.sku = loc[q].data.sku]
                                   ELSE @[i]]]
     IN IF ~products[id].exists \/ NoVariantHasId(products[id].variants, variantId)
        THEN /\ Throw(q, loc[q], ProductError("Product or variant not found"))
             /\ UNCHANGED products
        ELSE IF ProductDuplicateKey(doc, id)
        THEN /\ Throw(q, loc[q], "DuplicateKey")
             /\ UNCHANGED products
        ELSE /\ products' = [products EXCEPT ![id] = doc]
             /\ loc' = [loc EXCEPT ![q].res = doc]
             /\ Goto(q, "prod_invalp")
             /\ UNCHANGED last
  /\ UNCHANGED <<orders, brands, carts, promos, nextId, cache>>

\* ------------------------------------------------------------ ProductService: reviews
\* addReview: findByIdAndUpdate(id, {$push: {reviews: {...reviewData, user: userId}}})
ProductAddReview(q, id, rating, userId) ==
  /\ Idle(q)
  /\ nextId["reviews"] <= MaxReviews
  /\ LET l == [IdleLoc EXCEPT !.op = "product.addReview", !.id = id,
                              !.data = [rating |-> rating, userId |-> userId]]
         review == [_id |-> nextId["reviews"], rating |-> rating, user |-> userId]
     IN IF ~isValidMongoId(id)
        THEN /\ Throw(q, l, ProductError("Invalid product ID"))
             /\ UNCHANGED <<products, nextId>>
        ELSE IF ~products[id].exists
        THEN /\ Throw(q, l, ProductError("Product not found"))
             /\ UNCHANGED <<products, nextId>>
        ELSE /\ products' = [products EXCEPT ![id].reviews = Append(@, review)]
             /\ nextId' = [nextId EXCEPT !["reviews"] = @ + 1]
             /\ loc' = [loc EXCEPT ![q] = l]
             /\ Goto(q, "prod_invalp")
             /\ UNCHANGED last
  /\ UNCHANGED <<orders, brands, carts, promos, cache>>

\* findOne({_id: id, 'reviews._id': reviewId, 'reviews.user': userId}): each
\* condition on the array is met when some element meets it
ReviewMatches(reviews, reviewId, userId) ==
  /\ \E i \in 1..Len(reviews) : reviews[i]._id = reviewId
  /\ \E i \in 1..Len(reviews) : reviews[i].user = userId

\* updateReview / deleteReview: "Check if user owns the review"
ProductReviewCheck(q, l, message, next) ==
  /\ Idle(q)
  /\ IF ~isValidMongoId(l.id)
     THEN Throw(q, l, ProductError("Invalid product ID"))
     ELSE IF ~(products[l.id].exists
                 /\ ReviewMatches(products[l.id].reviews, l.data.reviewId, l.data.userId))
     THEN Throw(q, l, ProductError(message))
     ELSE /\ loc' = [loc EXCEPT ![q] = l]
          /\ Goto(q, next)
          /\ UNCHANGED last
  /\ UNCHANGED <<orders, brands, carts, promos, nextId, products, cache>>

ProductUpdateReview(q, id, reviewId, rating, userId) ==
  ProductReviewCheck(q,
    [IdleLoc EXCEPT !.op = "product.updateReview", !.id = id,
                    !.data = [reviewId |-> reviewId, rating |-> rating,
                              userId |-> userId]],
    "Product not found or you are not authorized to update this review",
    "review_set")

\* updateReview: findOneAndUpdate({_id: id, 'reviews._id': reviewId},
\* {$set: {'reviews.$.rating': rating}}); null when nothing matches
ProductUpdateReviewSet(q) ==
  /\ pc[q] = "review_set"
  /\ products' = [products EXCEPT ![loc[q].id].reviews =
                    [i \in 1..Len(@) |->
                       IF products[loc[q].id].exists /\ @[i]._id = loc[q].data.reviewId
                       THEN [@[i] EXCEPT !.rating = loc[q].data.rating]
                       ELSE @[i]]]
  /\ Goto(q, "prod_invalp")
  /\ UNCHANGED <<orders, brands, carts, promos, nextId, cache, loc, last>>

ProductDeleteReview(q, id, reviewId, userId) ==
  ProductReviewCheck(q,
    [IdleLoc EXCEPT !.op = "product.deleteReview", !.id = id,
                    !.data = [reviewId |-> reviewId, userId |-> userId]],
    "Product not found or you are not authorized to delete this review",
    "review_pull")

\* deleteReview: findByIdAndUpdate(id, {$pull: {reviews: {_id: reviewId}}})
ProductDeleteReviewPull(q) ==
  /\ pc[q] = "review_pull"
  /\ products' = [products EXCEPT ![loc[q].id].reviews =
                    SelectSeq(@, LAMBDA r : r._id # loc[q].data.reviewId)]
  /\ Goto(q, "prod_invalp")
  /\ UNCHANGED <<orders, brands, carts, promos, nextId, cache, loc, last>>

\* ------------------------------------------------------------ OrderModel
OrderIds == {orders[i].id : i \in 1..Len(orders)}

\* a collection without the unique index on id
OrderIndexAbsent(id) == FALSE

\* OrderSchema.id: unique
OrderDuplicateKey(id) == id \in OrderIds

\* findOne({}, {id: 1}).sort({id: -1}): the order with the largest id, if any
LastOrderId == CHOOSE id \in OrderIds : \A other \in OrderIds : other <= id

\* save() of a new order: validation runs ahead of the schema's pre('save') hook, and
\* id is required; id 0 stands for a document that carries none
OrderSave(q, id) ==
  /\ Idle(q)
  /\ LET l == [IdleLoc EXCEPT !.op = "order.save", !.id = id]
     IN IF id = 0
        THEN Throw(q, l, "ValidationError")
        ELSE /\ loc' = [loc EXCEPT ![q] = l]
             /\ Goto(q, "order_hook")
             /\ UNCHANGED last
  /\ UNCHANGED <<orders, brands, carts, promos, nextId, products, cache>>

\* pre('save'): this.id = lastOrder ? lastOrder.id + 1 : 1
OrderPreSave(q) ==
  /\ pc[q] = "order_hook"
  /\ loc' = [loc EXCEPT ![q].id = IF orders = <<>> THEN 1 ELSE LastOrderId + 1]
  /\ Goto(q, "order_insert")
  /\ UNCHANGED <<orders, brands, carts, promos, nextId, products, cache, last>>

\* save(): the insert
OrderInsert(q) ==
  /\ pc[q] = "order_insert"
  /\ IF OrderDuplicateKey(loc[q].id)
     THEN /\ Throw(q, loc[q], "DuplicateKey")
          /\ UNCHANGED orders
     ELSE /\ orders' = Append(orders, [id |-> loc[q].id])
          /\ Return(q, loc[q])
  /\ UNCHANGED <<brands, carts, promos, nextId, products, cache>>

\* ------------------------------------------------------------ cache-store failures
\* The Cache Gateway is best-effort: when the store fails, get answers absent and
\* set and delete leave the store as it is; the caller sees no error.

\* the steps that are one setCache or deleteCache call, with the step that follows
CacheSteps ==
  [read_set |-> "return", add_invalu |-> "add_invala", add_invala |-> "return",
   create_invalp |-> "create_inval", create_inval |-> "return",
   update_invalp |-> "update_invald", update_invald |-> "update_inval",
   update_inval |-> "return"]

\* a gateway that hands the store's failure to the caller
CacheStepThrows(q) ==
  /\ pc[q] \in DOMAIN CacheSteps
  /\ Throw(q, loc[q], "CacheError")
  /\ UNCHANGED <<orders, brands, carts, promos, nextId, products, cache>>

\* setCache / deleteCache while the store fails
CacheStepFails(q) ==
  /\ pc[q] \in DOMAIN CacheSteps
  /\ IF CacheSteps[pc[q]] = "return"
     THEN Return(q, IF pc[q] = "create_inval"
                    THEN [loc[q] EXCEPT !.res = [_id |-> loc[q].id]]
                    ELSE loc[q])
     ELSE /\ Goto(q, CacheSteps[pc[q]])
          /\ UNCHANGED <<loc, last>>
  /\ UNCHANGED <<orders, brands, carts, promos, nextId, products, cache>>

\* getCart: getCache(cacheKey) while the store fails
CartGetCartGetFails(q, user, query) ==
  /\ Idle(q)
  /\ loc' = [loc EXCEPT ![q] =
               [IdleLoc EXCEPT !.op = "cart.getCart", !.kind = "cart", !.user = user,
                               !.key = generateCacheKey(<<"cart", IdStr(user)>>, query)]]
  /\ Goto(q, "cart_find")
  /\ UNCHANGED <<orders, brands, carts, promos, nextId, products, cache, last>>

\* BrandService.list: getCache(cacheKey) while the store fails
BrandListGetFails(q, query) ==
  /\ Idle(q)
  /\ loc' = [loc EXCEPT ![q] =
               [IdleLoc EXCEPT !.op = "brand.list",
                               !.key = generateCacheKey(<<"brands">>, BrandKeyQuery(query))]]
  /\ Goto(q, "blist_query")
  /\ UNCHANGED <<orders, brands, carts, promos, nextId, products, cache, last>>

\* ------------------------------------------------------------ persistence failures
\* the awaits of CampaignService / OfferService that follow the first write: the
\* products' updateMany of create, update and delete, and delete's
\* findByIdAndDelete
PersistenceSteps ==
  {"create_link", "update_unlink", "update_link", "delete_unlink", "delete_remove"}

\* the awaited query rejects: nothing is written and the error leaves the handler,
\* which has no try/catch
PersistenceStepFails(q) ==
  /\ pc[q] \in PersistenceSteps
  /\ Throw(q, loc[q], "PersistenceError")
  /\ UNCHANGED <<orders, brands, carts, promos, nextId, products, cache>>

\* ------------------------------------------------------------ specifications
ConcProducts == 2
ConcPromos == 1


\* an empty promotions store, a catalogue seeded with the products P, an empty cache
InitStore(P) ==
  /\ promos = [k \in Kinds |-> [id \in PromoIds |-> NoDoc]]
  /\ nextId = [k \in Kinds \cup Collections \cup {"brands", "products", "variants", "items", "reviews"} |->
                 IF k = "products" THEN Cardinality(P) + 1 ELSE 1]
  /\ brands = [id \in BrandIds |-> NoBrand]
  /\ carts = [c \in Collections |-> {}]
  /\ orders = <<>>
  /\ before = [q \in Procs |-> NoSnapshot]
  /\ products = [p \in ProductIds |-> IF p \in P THEN SeedProduct(p) ELSE NoProduct]
  /\ cache = EmptyCache
  /\ loc = [q \in Procs |-> IdleLoc]
  /\ last = NoLast

\* every request slot serves requests: handlers interleave at their awaits
Concurrent == pc = [q \in Procs |-> "idle"]

\* one request at a time
Sequential == pc = [q \in Procs |-> IF q = 1 THEN "idle" ELSE "off"]

\* the requests to service k that name its first n records and the products P
PromoRequests(q, k, n, P) ==
  \/ \E pids \in SUBSET P : nextId[k] <= n /\ PromoCreate(q, k, pids, TRUE)
  \/ \E id \in 1..n, pids \in SUBSET P : PromoUpdate(q, k, id, TRUE, pids, {})
  \/ \E id \in 1..n : PromoDelete(q, k, id)

PromoSteps(q) ==
  \/ PromoCreateLink(q)
  \/ PromoCreateInvalProducts(q)
  \/ PromoCreateInval(q)
  \/ PromoUpdateWrite(q)
  \/ PromoUpdateUnlink(q)
  \/ PromoUpdateLink(q)
  \/ PromoUpdateInvalProducts(q)
  \/ PromoUpdateInvalDetail(q)
  \/ PromoUpdateInval(q)
  \/ PromoDeleteUnlink(q)
  \/ PromoDeleteInvalProducts(q)
  \/ PromoDeleteRemove(q)
  \/ PromoDeleteInvalDetail(q)
  \/ PromoDeleteInval(q)

\* the requests that edit product k-references directly
LinkRequests(q, k, n, P) ==
  \/ \E p \in P, id \in 1..n : ProductLink(q, k, p, <<id>>)
  \/ \E p \in P, id \in 1..n : ProductUnlink(q, k, p, id)
  \/ \E p \in P : ProductRemove(q, p)

ProductSteps(q) ==
  \/ ProductInvalList(q)
  \/ ProductInvalDetail(q)

\* campaigns and the products they reference, under concurrent requests
Next ==
  \E q \in Procs :
    \/ PromoRequests(q, "campaigns", ConcPromos, 1..ConcProducts)
    \/ LinkRequests(q, "campaigns", ConcPromos, 1..ConcProducts)
    \/ PromoSteps(q)
    \/ ProductSteps(q)

Init == InitStore(1..ConcProducts) /\ Concurrent

Spec == Init /\ [][Next]_vars

\* the product list queries requests carry
ProductQueries ==
  {[is_active |-> {}, includeCampaigns |-> "false", includeOffers |-> "false",
    page |-> 1, limit |-> 2, sortBy |-> "createdAt", sortOrder |-> "asc"],
   [is_active |-> {TRUE}, includeCampaigns |-> "true", includeOffers |-> "true",
    page |-> 2, limit |-> 1, sortBy |-> "createdAt", sortOrder |-> "desc"]}

\* CampaignService and OfferService with the product list, one request at a time
SeqNext ==
  \E q \in Procs :
    \/ PromoRequests(q, "campaigns", MaxPromos, 1..ConcProducts)
    \/ PromoRequests(q, "offers", ConcPromos, 1..ConcProducts)
    \/ PromoSteps(q)
    \/ \E query \in ProductQueries : ProductList(q, query)
    \/ ProductListQuery(q)
    \/ ReadSetCache(q)

SeqInit == InitStore(ProductIds) /\ Sequential

SeqSpec == SeqInit /\ [][SeqNext]_vars

\* the queries list requests carry
BrandQueries ==
  {[is_active |-> {}, page |-> 1, limit |-> 2, sortOrder |-> "asc"],
   [is_active |-> {TRUE}, page |-> 1, limit |-> 1, sortOrder |-> "desc"]}

PromoQueries ==
  {[is_active |-> "none", includeProducts |-> "false", sortBy |-> "createdAt",
    sortOrder |-> "desc", page |-> 1, limit |-> 2],
   [is_active |-> "true", includeProducts |-> "true", sortBy |-> "createdAt",
    sortOrder |-> "asc", page |-> 1, limit |-> 1]}

BrandNames == {<<"A", "b">>, <<"a", " ", "B">>}

ListBrands == 1

BrandRequests(q, n, names) ==
  \/ \E name \in names :
       /\ nextId["brands"] <= n
       /\ BrandCreate(q, [name |-> name, slug |-> Absent, is_active |-> {}])
  \/ \E id \in 1..n, b \in BOOLEAN : BrandChangeStatus(q, id, b)
  \/ \E id \in 1..n : BrandRemove(q, id)

BrandSteps(q) ==
  \/ BrandCreateSlug(q)
  \/ BrandCreateInsert(q)
  \/ BrandInvalDetail(q)
  \/ BrandInval(q)

\* the list of every service with writes of the service, one request at a time
ListNext ==
  \E q \in Procs :
    \/ BrandRequests(q, ListBrands, {<<"A", "b">>})
    \/ BrandSteps(q)
    \/ \E query \in BrandQueries : BrandList(q, query)
    \/ BrandListQuery(q)
    \/ nextId["campaigns"] <= ConcPromos /\ PromoCreate(q, "campaigns", {}, TRUE)
    \/ \E b \in BOOLEAN : PromoUpdateStatus(q, "campaigns", 1, b)
    \/ PromoDelete(q, "campaigns", 1)
    \/ PromoCreateInval(q)
    \/ PromoUpdateWrite(q)
    \/ PromoUpdateInvalDetail(q)
    \/ PromoUpdateInval(q)
    \/ PromoDeleteRemove(q)
    \/ PromoDeleteInvalDetail(q)
    \/ PromoDeleteInval(q)
    \/ \E query \in PromoQueries : PromoList(q, "campaigns", query)
    \/ PromoListQuery(q)
    \/ \E b \in BOOLEAN : ProductChangeStatus(q, 1, b)
    \/ ProductSteps(q)
    \/ \E query \in ProductQueries : ProductList(q, query)
    \/ ProductListQuery(q)
    \/ ReadSetCache(q)

ListInit == InitStore(1..ConcProducts) /\ Sequential

ListSpec == ListInit /\ [][ListNext]_vars

\* the product detail with the writes to the product, one request at a time
DetailNext ==
  \E q \in Procs :
    \/ \E p \in 1..ConcProducts, includeCampaigns \in {"true", "false"} :
         ProductGetById(q, p, includeCampaigns, "false")
    \/ ProductGetByIdQuery(q)
    \/ ReadSetCache(q)
    \/ \E p \in 1..ConcProducts, b \in BOOLEAN : ProductChangeStatus(q, p, b)
    \/ LinkRequests(q, "campaigns", ConcPromos, 1..ConcProducts)
    \/ ProductSteps(q)

DetailInit == InitStore(1..ConcProducts) /\ Sequential

DetailSpec == DetailInit /\ [][DetailNext]_vars

\* the cart and wishlist requests of the users
CartQueries ==
  {[includeUser |-> FALSE, includeProduct |-> FALSE],
   [includeUser |-> TRUE, includeProduct |-> TRUE]}

CartFull(user) ==
  \E d \in DocsOf("cart", user) :
    \E i \in 1..Len(d.items) : d.items[i].quantity >= MaxQuantity

CartRequests(q, users, queries) ==
  \/ \E u \in users, query \in queries : CartGetCart(q, u, query)
  \/ \E u \in users : ~CartFull(u) /\ CartAddItem(q, u, 1, 1)
  \/ \E query \in queries : WishlistGetWishlist(q, 1, query)

CartSteps(q) ==
  \/ CartGetCartFind(q)
  \/ CartGetCartCreate(q)
  \/ ReadSetCache(q)
  \/ CartAddItemCreate(q)
  \/ CartAddItemSave(q)
  \/ CartAddItemInvalUser(q)
  \/ CartAddItemInvalAll(q)

\* concurrent requests of one user
CartNext ==
  \E q \in Procs :
    \/ CartRequests(q, {1}, CartQueries)
    \/ CartSteps(q)

CartInit == InitStore(1..ConcProducts) /\ Concurrent

CartSpec == CartInit /\ [][CartNext]_vars

\* the requests of the users, one request at a time
CartSeqNext ==
  \E q \in Procs :
    \/ CartRequests(q, UserIds, CartQueries)
    \/ CartSteps(q)

CartSeqInit == InitStore(1..ConcProducts) /\ Sequential

CartSeqSpec == CartSeqInit /\ [][CartSeqNext]_vars

\* addItem with several products and quantities, one request at a time
AddFits(user, quantity) ==
  \A d \in DocsOf("cart", user) :
    \A i \in 1..Len(d.items) : d.items[i].quantity + quantity <= MaxTotal

AddRequests(q, users, pids, quantities) ==
  \E u \in users, p \in pids, n \in quantities :
    AddFits(u, n) /\ CartAddItem(q, u, p, n)

AddSeqNext ==
  \E q \in Procs :
    \/ CartGetCart(q, 1, [includeUser |-> FALSE, includeProduct |-> FALSE])
    \/ AddRequests(q, {1}, 1..AddProducts, 1..MaxQuantity)
    \/ CartSteps(q)

AddSeqInit == InitStore(1..ConcProducts) /\ Sequential

AddSeqSpec == AddSeqInit /\ [][AddSeqNext]_vars

\* reads and writes of three services while cache calls may fail, one request at
\* a time
FaultQuery == [includeUser |-> FALSE, includeProduct |-> FALSE]
FaultBrandQuery == [is_active |-> {}, page |-> 1, limit |-> 1, sortOrder |-> "desc"]

CacheFaultNext ==
  \E q \in Procs :
    \/ CartGetCart(q, 1, FaultQuery)
    \/ CartGetCartGetFails(q, 1, FaultQuery)
    \/ AddFits(1, 1) /\ CartAddItem(q, 1, 1, 1)
    \/ CartSteps(q)
    \/ BrandList(q, FaultBrandQuery)
    \/ BrandListGetFails(q, FaultBrandQuery)
    \/ BrandListQuery(q)
    \/ \E pids \in SUBSET {1} :
         nextId["campaigns"] <= ConcPromos /\ PromoCreate(q, "campaigns", pids, TRUE)
    \/ \E pids \in SUBSET {1} : PromoUpdate(q, "campaigns", 1, TRUE, pids, {})
    \/ PromoCreateLink(q)
    \/ PromoCreateInvalProducts(q)
    \/ PromoCreateInval(q)
    \/ PromoUpdateWrite(q)
    \/ PromoUpdateUnlink(q)
    \/ PromoUpdateLink(q)
    \/ PromoUpdateInvalProducts(q)
    \/ PromoUpdateInvalDetail(q)
    \/ PromoUpdateInval(q)
    \/ CacheStepFails(q)

CacheFaultInit == InitStore(1..ConcProducts) /\ Sequential

CacheFaultSpec == CacheFaultInit /\ [][CacheFaultNext]_vars

\* the catalogue writes: products with their variants, and brands
CatalogProducts == 2
ProductNames == {<<"a">>, <<"A">>}
ProductSlugs == {Absent, <<"b">>}
SkuNames == {"s1", "s2"}
VariantBodies == {<<"s1">>, <<"s2">>, <<"s1", "s1">>}

ProductBodies == [name : ProductNames, slug : ProductSlugs, variants : VariantBodies]

ProductPatches == [name : ProductNames \cup {Absent}, slug : ProductSlugs]

ProductCreateRequests(q) ==
  \E data \in ProductBodies :
    /\ nextId["products"] <= CatalogProducts
    /\ nextId["variants"] + Len(data.variants) <= MaxVariants + 1
    /\ ProductCreate(q, data)

ProductCreateSteps(q) ==
  \/ ProductCreateName(q)
  \/ ProductCreateInsert(q)
  \/ ProductCreateInval(q)

ProductUpdateSteps(q) ==
  \/ ProductUpdateSlug(q)
  \/ ProductUpdateName(q)
  \/ ProductUpdateWrite(q)
  \/ ProductInvalList(q)
  \/ ProductInvalDetail(q)

VariantRequests(q) ==
  \/ \E id \in 1..CatalogProducts, sku \in SkuNames :
       nextId["variants"] <= MaxVariants /\ ProductAddVariant(q, id, sku)
  \/ \E id \in 1..CatalogProducts, variantId \in 1..MaxVariants, sku \in SkuNames :
       ProductUpdateVariant(q, id, variantId, sku)

CatalogNext ==
  \E q \in Procs :
    \/ ProductCreateRequests(q)
    \/ ProductCreateSteps(q)
    \/ \E id \in 1..CatalogProducts, data \in ProductPatches : ProductUpdate(q, id, data)
    \/ ProductUpdateSteps(q)
    \/ VariantRequests(q)
    \/ ProductAddVariantPush(q)
    \/ ProductUpdateVariantSet(q)
    \/ BrandRequests(q, ListBrands, {<<"A", "b">>})
    \/ BrandSteps(q)

CatalogInit == InitStore({}) /\ Sequential

CatalogSpec == CatalogInit /\ [][CatalogNext]_vars

\* concurrent creates and updates of products
ConcBodies ==
  {[name |-> <<"a">>, slug |-> Absent, variants |-> <<"s1">>],
   [name |-> <<"a">>, slug |-> <<"b">>, variants |-> <<"s2">>]}

ConcPatches == [name : {<<"a">>, Absent}, slug : ProductSlugs]

CatalogConcNext ==
  \E q \in Procs :
    \/ \E data \in ConcBodies :
         nextId["products"] <= CatalogProducts /\ ProductCreate(q, data)
    \/ ProductCreateSteps(q)
    \/ \E id \in 1..CatalogProducts, data \in ConcPatches : ProductUpdate(q, id, data)
    \/ ProductUpdateSteps(q)

CatalogConcInit == InitStore({}) /\ Concurrent

CatalogConcSpec == CatalogConcInit /\ [][CatalogConcNext]_vars

\* the paginated lists of brands and of carts, one request at a time
Pages == {[page |-> 1, limit |-> 2], [page |-> 2, limit |-> 2], [page |-> 3, limit |-> 1]}

PageBrandQueries ==
  {[is_active |-> {}, page |-> pg.page, limit |-> pg.limit, sortOrder |-> "asc"] :
     pg \in Pages}

PageCartQueries ==
  {[includeUser |-> FALSE, includeProduct |-> FALSE, page |-> pg.page,
    limit |-> pg.limit] : pg \in Pages}

PageNext ==
  \E q \in Procs :
    \/ \E name \in BrandNames :
         /\ nextId["brands"] <= MaxBrands
         /\ BrandCreate(q, [name |-> name, slug |-> Absent, is_active |-> {}])
    \/ BrandCreateSlug(q)
    \/ BrandCreateInsert(q)
    \/ BrandInval(q)
    \/ \E query \in PageBrandQueries : BrandList(q, query)
    \/ BrandListQuery(q)
    \/ \E u \in UserIds : DocsOf("cart", u) = {} /\ CartAddItem(q, u, 1, 1)
    \/ CartAddItemCreate(q)
    \/ CartAddItemInvalUser(q)
    \/ CartAddItemInvalAll(q)
    \/ \E query \in PageCartQueries : CartGetAllCarts(q, query)
    \/ CartGetAllCartsQuery(q)
    \/ ReadSetCache(q)

PageInit == InitStore(1..ConcProducts) /\ Sequential

PageSpec == PageInit /\ [][PageNext]_vars

\* concurrent saves of new orders
OrderNext ==
  \E q \in Procs :
    \/ \E id \in {0, 1, MaxOrders} : Len(orders) < MaxOrders /\ OrderSave(q, id)
    \/ OrderPreSave(q)
    \/ OrderInsert(q)

OrderInit == InitStore(1..ConcProducts) /\ Concurrent

OrderSpec == OrderInit /\ [][OrderNext]_vars

\* the campaign and offer writes with queries that may fail, one request at a time
FailNext ==
  \E q \in Procs :
    \/ \E k \in Kinds : PromoRequests(q, k, ConcPromos, {1})
    \/ PromoSteps(q)
    \/ PersistenceStepFails(q)

FailInit == InitStore(1..ConcProducts) /\ Sequential

FailSpec == FailInit /\ [][FailNext]_vars

\* renames of brands and products, one request at a time
RenameNames == {<<"a">>, <<"b">>}
BrandPatches == [name : RenameNames \cup {Absent}, slug : RenameNames \cup {Absent},
                 is_active : {{}}]
RenamePatches == [name : RenameNames \cup {Absent}, slug : RenameNames \cup {Absent}]
RenameBodies == [name : RenameNames, slug : {Absent}, variants : {<<"s1">>, <<"s2">>}]

RenameNext ==
  \E q \in Procs :
    \/ \E name \in RenameNames :
         /\ nextId["brands"] <= MaxBrands
         /\ BrandCreate(q, [name |-> name, slug |-> Absent, is_active |-> {}])
    \/ BrandCreateSlug(q)
    \/ BrandCreateInsert(q)
    \/ \E id \in BrandIds, data \in BrandPatches : BrandUpdate(q, id, data)
    \/ BrandUpdateName(q)
    \/ BrandUpdateWrite(q)
    \/ BrandInvalDetail(q)
    \/ BrandInval(q)
    \/ \E data \in RenameBodies :
         nextId["products"] <= CatalogProducts /\ ProductCreate(q, data)
    \/ ProductCreateSteps(q)
    \/ \E id \in 1..CatalogProducts, data \in RenamePatches : ProductUpdate(q, id, data)
    \/ ProductUpdateSteps(q)

RenameInit == InitStore({}) /\ Sequential

RenameSpec == RenameInit /\ [][RenameNext]_vars

\* updates and deletes of brands, campaigns and offers that name records stored,
\* deleted or never created, next to cached lists; one request at a time
AbsentBrandPatches ==
  {[name |-> <<"a">>, slug |-> Absent, is_active |-> {}],
   [name |-> Absent, slug |-> Absent, is_active |-> {FALSE}]}
AbsentBrandQuery == [is_active |-> {}, page |-> 1, limit |-> 2, sortOrder |-> "asc"]
AbsentPromoQuery ==
  [is_active |-> "none", includeProducts |-> "false", sortBy |-> "createdAt",
   sortOrder |-> "desc", page |-> 1, limit |-> 2]

AbsentNext ==
  \E q \in Procs :
    \/ /\ nextId["brands"] <= ListBrands
       /\ BrandCreate(q, [name |-> <<"a">>, slug |-> Absent, is_active |-> {}])
    \/ BrandCreateSlug(q)
    \/ BrandCreateInsert(q)
    \/ \E id \in BrandIds, data \in AbsentBrandPatches : BrandUpdate(q, id, data)
    \/ BrandUpdateName(q)
    \/ BrandUpdateWrite(q)
    \/ \E id \in BrandIds : BrandRemove(q, id)
    \/ BrandInvalDetail(q)
    \/ BrandInval(q)
    \/ BrandList(q, AbsentBrandQuery)
    \/ BrandListQuery(q)
    \/ PromoRequests(q, "campaigns", ConcPromos, {1})
    \/ \E k \in Kinds : PromoUpdate(q, k, MaxPromos, TRUE, {1}, {})
    \/ \E k \in Kinds : PromoDelete(q, k, MaxPromos)
    \/ PromoSteps(q)
    \/ PromoList(q, "campaigns", AbsentPromoQuery)
    \/ PromoListQuery(q)
    \/ ReadSetCache(q)

AbsentInit == InitStore({1}) /\ Sequential

AbsentSpec == AbsentInit /\ [][AbsentNext]_vars

\* the edits of a cart's items next to the cached cart, one request at a time
EditProducts == 2
EditQuery == [includeUser |-> FALSE, includeProduct |-> FALSE]

CartEditNext ==
  \E q \in Procs :
    \/ CartGetCart(q, 1, EditQuery)
    \/ CartGetCartFind(q)
    \/ CartGetCartCreate(q)
    \/ ReadSetCache(q)
    \/ \E u \in {0, 1}, p \in 0..EditProducts :
         ~CartFull(u) /\ CartAddItem(q, u, p, 1)
    \/ CartAddItemCreate(q)
    \/ CartAddItemSave(q)
    \/ \E u \in UserIds, itemId \in 1..MaxItems, n \in 0..MaxQuantity :
         CartUpdateItem(q, u, itemId, n)
    \/ CartUpdateItemSave(q)
    \/ \E u \in UserIds, itemId \in 1..MaxItems : CartRemoveItem(q, u, itemId)
    \/ CartRemoveItemSave(q)
    \/ \E u \in UserIds \cup {0} : CartClearCart(q, u)
    \/ CartClearCartSave(q)
    \/ CartAddItemInvalUser(q)
    \/ CartAddItemInvalAll(q)

CartEditInit == InitStore(1..ConcProducts) /\ Sequential

CartEditSpec == CartEditInit /\ [][CartEditNext]_vars

\* the status switches of campaigns, offers and brands, one request at a time
StatusNext ==
  \E q \in Procs :
    \/ \E k \in Kinds, pids \in SUBSET (1..ConcProducts) :
         nextId[k] <= ConcPromos /\ PromoCreate(q, k, pids, TRUE)
    \/ PromoCreateLink(q)
    \/ PromoCreateInvalProducts(q)
    \/ PromoCreateInval(q)
    \/ \E k \in Kinds, id \in 1..ConcPromos, b \in BOOLEAN : PromoUpdateStatus(q, k, id, b)
    \/ PromoUpdateWrite(q)
    \/ PromoUpdateInvalDetail(q)
    \/ PromoUpdateInval(q)
    \/ \E name \in BrandNames :
         /\ nextId["brands"] <= MaxBrands
         /\ BrandCreate(q, [name |-> name, slug |-> Absent, is_active |-> {}])
    \/ BrandCreateSlug(q)
    \/ BrandCreateInsert(q)
    \/ \E id \in BrandIds, b \in BOOLEAN : BrandChangeStatus(q, id, b)
    \/ BrandInvalDetail(q)
    \/ BrandInval(q)

StatusInit == InitStore(1..ConcProducts) /\ Sequential

StatusSpec == StatusInit /\ [][StatusNext]_vars

\* creates of a product from a name alone, the names drawn over an alphabet
\* of letters, digits, blanks, hyphens, underscores and punctuation
SlugAlphabet == {"a", "B", "1", " ", "-", "_", "!"}
SlugNames == UNION {[1..n -> SlugAlphabet] : n \in 1..MaxNameLen}

SlugNext ==
  \E q \in Procs :
    \/ \E name \in SlugNames :
         /\ nextId["products"] <= 1
         /\ ProductCreate(q, [name |-> name, slug |-> Absent, variants |-> <<"s1">>])
    \/ ProductCreateSteps(q)

SlugInit == InitStore({}) /\ Sequential

SlugSpec == SlugInit /\ [][SlugNext]_vars

\* item edits in carts of several items, of two users, one request at a time
FrameNext ==
  \E q \in Procs :
    \/ \E u \in UserIds, p \in 1..EditProducts : ~CartFull(u) /\ CartAddItem(q, u, p, 1)
    \/ CartAddItemCreate(q)
    \/ CartAddItemSave(q)
    \/ \E u \in UserIds, itemId \in 1..MaxItems, n \in 1..MaxQuantity :
         CartUpdateItem(q, u, itemId, n)
    \/ CartUpdateItemSave(q)
    \/ \E u \in UserIds, itemId \in 1..MaxItems : CartRemoveItem(q, u, itemId)
    \/ CartRemoveItemSave(q)
    \/ CartAddItemInvalUser(q)
    \/ CartAddItemInvalAll(q)

FrameInit == InitStore(1..ConcProducts) /\ Sequential

FrameSpec == FrameInit /\ [][FrameNext]_vars

\* addItem and updateItem of one user with quantities below 1 among them, under
\* concurrent requests
QtyNext ==
  \E q \in Procs :
    \/ \E n \in -1..1 : (n <= 0 \/ ~CartFull(1)) /\ CartAddItem(q, 1, 1, n)
    \/ CartAddItemCreate(q)
    \/ CartAddItemSave(q)
    \/ \E itemId \in 1..MaxItems, n \in -1..MaxQuantity : CartUpdateItem(q, 1, itemId, n)
    \/ CartUpdateItemSave(q)
    \/ CartAddItemInvalUser(q)
    \/ CartAddItemInvalAll(q)

QtyInit == InitStore(1..ConcProducts) /\ Concurrent

QtySpec == QtyInit /\ [][QtyNext]_vars

\* product lists that populate campaigns, next to updates of the campaign, one
\* request at a time
PromoListQueries ==
  {[is_active |-> {}, includeCampaigns |-> inc, includeOffers |-> "false",
    page |-> 1, limit |-> 2, sortBy |-> "createdAt", sortOrder |-> "asc"] :
     inc \in {"true", "false"}}

PromoCacheNext ==
  \E q \in Procs :
    \/ \E pids \in SUBSET (1..ConcProducts) :
         nextId["campaigns"] <= ConcPromos /\ PromoCreate(q, "campaigns", pids, TRUE)
    \/ PromoCreateLink(q)
    \/ PromoCreateInvalProducts(q)
    \/ PromoCreateInval(q)
    \/ \E id \in 1..ConcPromos, b \in BOOLEAN :
         PromoUpdateStatus(q, "campaigns", id, b)
    \/ \E id \in 1..ConcPromos, pids \in SUBSET (1..ConcProducts), act \in {{}, {FALSE}} :
         PromoUpdate(q, "campaigns", id, TRUE, pids, act)
    \/ PromoUpdateWrite(q)
    \/ PromoUpdateUnlink(q)
    \/ PromoUpdateLink(q)
    \/ PromoUpdateInvalProducts(q)
    \/ PromoUpdateInvalDetail(q)
    \/ PromoUpdateInval(q)
    \/ \E query \in PromoListQueries : ProductList(q, query)
    \/ ProductListQuery(q)
    \/ ReadSetCache(q)

PromoCacheInit == InitStore(1..ConcProducts) /\ Sequential

PromoCacheSpec == PromoCacheInit /\ [][PromoCacheNext]_vars

\* reviews of one product by two users, one request at a time
Ratings == 1..2

ReviewNext ==
  \E q \in Procs :
    \/ \E rating \in Ratings, u \in UserIds : ProductAddReview(q, 1, rating, u)
    \/ \E id \in {0, 1}, r \in 1..MaxReviews, rating \in Ratings, u \in UserIds :
         ProductUpdateReview(q, id, r, rating, u)
    \/ ProductUpdateReviewSet(q)
    \/ \E r \in 1..MaxReviews, u \in UserIds : ProductDeleteReview(q, 1, r, u)
    \/ ProductDeleteReviewPull(q)
    \/ ProductInvalList(q)
    \/ ProductInvalDetail(q)

ReviewInit == InitStore({1}) /\ Sequential

ReviewSpec == ReviewInit /\ [][ReviewNext]_vars

\* the four cart mutations next to cached carts and cached cart pages, one
\* request at a time
CacheCartQueries ==
  {[includeUser |-> FALSE, includeProduct |-> FALSE, page |-> 1, limit |-> lim] :
     lim \in 1..2}

CartCacheNext ==
  \E q \in Procs :
    \/ \E query \in CartQueries : CartGetCart(q, 1, query)
    \/ CartGetCartFind(q)
    \/ CartGetCartCreate(q)
    \/ \E query \in CacheCartQueries : CartGetAllCarts(q, query)
    \/ CartGetAllCartsQuery(q)
    \/ ReadSetCache(q)
    \/ \E u \in UserIds :
         /\ ~CartFull(u)
         /\ (u = 1 \/ DocsOf("cart", u) = {})
         /\ CartAddItem(q, u, 1, 1)
    \/ CartAddItemCreate(q)
    \/ CartAddItemSave(q)
    \/ \E itemId \in 1..MaxItems, n \in 1..MaxQuantity :
         CartUpdateItem(q, 1, itemId, n)
    \/ CartUpdateItemSave(q)
    \/ \E itemId \in 1..MaxItems : CartRemoveItem(q, 1, itemId)
    \/ CartRemoveItemSave(q)
    \/ CartClearCart(q, 1)
    \/ CartClearCartSave(q)
    \/ CartAddItemInvalUser(q)
    \/ CartAddItemInvalAll(q)

CartCacheInit == InitStore(1..ConcProducts) /\ Sequential

CartCacheSpec == CartCacheInit /\ [][CartCacheNext]_vars

\* updates of one campaign under concurrent requests; the campaign is created
\* while nothing else runs
UpdateNext ==
  \E q \in Procs :
    \/ \E pids \in SUBSET (1..ConcProducts) :
         /\ Quiescent
         /\ nextId["campaigns"] <= 1
         /\ PromoCreate(q, "campaigns", pids, TRUE)
    \/ PromoCreateLink(q)
    \/ PromoCreateInvalProducts(q)
    \/ PromoCreateInval(q)
    \/ \E pids \in SUBSET (1..ConcProducts) :
         /\ \A r \in Procs : loc[r].op # "create"
         /\ PromoUpdate(q, "campaigns", 1, TRUE, pids, {})
    \/ PromoUpdateWrite(q)
    \/ PromoUpdateUnlink(q)
    \/ PromoUpdateLink(q)
    \/ PromoUpdateInvalProducts(q)
    \/ PromoUpdateInvalDetail(q)
    \/ PromoUpdateInval(q)

UpdateInit == InitStore(1..ConcProducts) /\ Concurrent

UpdateSpec == UpdateInit /\ [][UpdateNext]_vars

\* OfferService alone, one request at a time, over stored products
OfferNext ==
  \E q \in Procs :
    \/ PromoRequests(q, "offers", ConcPromos, 1..ConcProducts)
    \/ \E id \in 1..ConcPromos, b \in BOOLEAN : PromoUpdateStatus(q, "offers", id, b)
    \/ PromoSteps(q)

OfferInit == InitStore(1..ConcProducts) /\ Sequential

OfferSpec == OfferInit /\ [][OfferNext]_vars

\* campaigns and offers of one product, and links of id lists with repeats,
\* under concurrent requests
LinkLists == {<<1>>, <<1, 1>>, <<2, 1, 2>>}

LinkNext ==
  \E q \in Procs :
    \/ \E k \in Kinds : nextId[k] <= ConcPromos /\ PromoCreate(q, k, {1}, TRUE)
    \/ PromoCreateLink(q)
    \/ PromoCreateInvalProducts(q)
    \/ PromoCreateInval(q)
    \/ \E k \in Kinds, pids \in SUBSET {1} : PromoUpdate(q, k, 1, TRUE, pids, {})
    \/ PromoUpdateWrite(q)
    \/ PromoUpdateUnlink(q)
    \/ PromoUpdateLink(q)
    \/ PromoUpdateInvalProducts(q)
    \/ PromoUpdateInvalDetail(q)
    \/ PromoUpdateInval(q)
    \/ \E k \in Kinds, ids \in LinkLists : ProductLink(q, k, 1, ids)
    \/ ProductSteps(q)

LinkInit == InitStore({1}) /\ Concurrent

LinkSpec == LinkInit /\ [][LinkNext]_vars

\* ------------------------------------------------------------ claims
Refs(p, k) == Range(products[p][k])

\* C1: in every quiescent state a product ID is in a campaign's
\* applies_to.productsIds if and only if the campaign's ID is in that product's
\* campaigns set.
C1_Bidirectional ==
  Quiescent =>
    \A id \in PromoIds, p \in ProductIds :
      (Live("campaigns", id) /\ p \in promos["campaigns"][id].productsIds)
        <=> (products[p].exists /\ id \in Refs(p, "campaigns"))

C4_NoDanglingRef ==
  Quiescent =>
    \A p \in ProductIds : \A id \in Refs(p, "campaigns") :
      promos["campaigns"][id].state # "deleted"

\* C5: the step of delete that removes the Campaign/Offer record is taken only
\* after the step that pulls its ID from the referenced products has completed.
C5_UnlinkBeforeRemove ==
  [][\A k \in Kinds, id \in PromoIds :
       (promos[k][id].state = "live" /\ promos'[k][id].state = "deleted") =>
         \E q \in Procs :
           /\ loc[q].op = "delete" /\ loc[q].kind = k /\ loc[q].id = id
           /\ pc[q] = "delete_remove"
           /\ (loc[q].old # {} => loc[q].unlinked)]_vars

\* a delete that had products to unlink has removed the record
C5_Witness ==
  \E q \in Procs :
    /\ pc[q] = "delete_invald" /\ loc[q].old # {} /\ loc[q].unlinked
    /\ promos[loc[q].kind][loc[q].id].state = "deleted"

\* C2: when create returns for a non-empty product-ID list, every stored product
\* named in the list holds the new Campaign/Offer ID, and no product list is left
\* in the cache, whatever its query parameters: the next ProductService.list misses
\* and queries persistence.
C2_CreateLinksAndInvalidates ==
  [][\A q \in Procs :
       (pc[q] = "create_inval" /\ pc'[q] = "idle" /\ loc[q].pids # {}) =>
         /\ \A p \in loc[q].pids :
              products'[p].exists => loc[q].id \in Range(products'[p][loc[q].kind])
         /\ \A query \in ProductQueries :
              ~Present(cache', generateCacheKey(<<"products", "list">>, query))]_vars

\* product lists were cached while a create with two products started; the create
\* has linked both and emptied the list cache, and is about to return
C2_Witness ==
  \E q \in Procs :
    /\ pc[q] = "create_inval" /\ Cardinality(loc[q].pids) >= 2
    /\ \A p \in loc[q].pids : loc[q].id \in Refs(p, loc[q].kind)
    /\ last.op = "product.list" /\ ~last.hit
    /\ ~Present(cache, last.key)

\* a list call is answered in this step
ListResponded ==
  /\ last'.op \in ListOps
  /\ (last' # last \/ \E q \in Procs : pc[q] = "read_set" /\ pc'[q] = "idle")

\* C6: when a list call is answered and the request answered before it was a list
\* call of the same service with the same parameters, no mutation having returned
\* in between, the answer is the one given before and it comes from the cache, no
\* persistence query having been issued.
C6_RepeatedListFromCache ==
  [][(ListResponded /\ last.op = last'.op /\ last.key = last'.key) =>
       (last'.hit /\ last'.res = last.res)]_vars

\* a non-empty list has been answered from the cache
C6_Witness ==
  /\ last.op \in ListOps /\ last.hit
  /\ last.res.pagination.items > 0
  /\ Present(cache, last.key) /\ getCache(cache, last.key) = last.res

\* the keys under which service svc caches its lists
IsListKey(key, svc) ==
  /\ key.q # NoQuery
  /\ key.res = (IF svc = "brands" THEN <<"brands">> ELSE <<svc, "list">>)

\* a write of service svc returns in this step
WriteCompletes(q, svc) ==
  /\ pc'[q] = "idle"
  /\ \/ svc = "brands" /\ pc[q] = "brand_inval"
     \/ /\ svc \in Kinds /\ loc[q].kind = svc
        /\ pc[q] \in {"create_inval", "update_inval", "delete_inval"}

\* C7: when a write of BrandService, CampaignService or OfferService returns, no
\* list entry of that service cached before the write is left in the cache.
C7_WriteInvalidatesLists ==
  [][\A q \in Procs, svc \in Kinds \cup {"brands"} :
       WriteCompletes(q, svc) =>
         \A key \in DOMAIN cache : IsListKey(key, svc) => ~Present(cache', key)]_vars

\* C8: when a mutation of product id returns, no detail entry of that product
\* cached before the mutation is left in the cache, whatever its field selection
\* and include flags.
C8_WriteInvalidatesDetail ==
  [][\A q \in Procs :
       (pc[q] = "prod_invald" /\ pc'[q] = "idle") =>
         \A key \in DOMAIN cache :
           (key.res = <<"product">> /\ key.q.id = loc[q].id) => ~Present(cache', key)]_vars

\* a getCart call is answered in this step
GetCartResponded ==
  /\ last'.op = "cart.getCart"
  /\ (last' # last \/ \E q \in Procs : pc[q] = "read_set" /\ pc'[q] = "idle")

\* C9: when getCart(user) returns, the user has exactly one cart and it is the one
\* returned; a cart the call created is empty; and when the request answered
\* before it was a getCart of the same user, the call created no cart and returns
\* the identifier returned before.
C9_GetCartCreatesOnce ==
  [][\A u \in UserIds :
       (GetCartResponded /\ last'.key.res = <<"cart", IdStr(u)>>) =>
         LET mine == {d \in carts'["cart"] : d.user = u}
             created == \E q \in Procs : pc[q] = "read_set" /\ loc[q].created
         IN /\ "_id" \in DOMAIN last'.res
            /\ Cardinality(mine) = 1
            /\ \A d \in mine : d._id = last'.res._id
            /\ created => last'.res.items = <<>> /\ \A d \in mine : d.items = <<>>
            /\ (last.op = "cart.getCart" /\ last.key.res = last'.key.res) =>
                 (~created /\ last'.res._id = last.res._id)]_vars

\* a getCart that missed the cache has found the cart an earlier getCart of the
\* user created and returned, and is about to return it
C9_Witness ==
  \E q \in Procs :
    /\ pc[q] = "read_set" /\ loc[q].op = "cart.getCart" /\ ~loc[q].created
    /\ last.op = "cart.getCart" /\ last.key.res = loc[q].key.res /\ ~last.hit
    /\ last.res.items = <<>> /\ loc[q].res._id = last.res._id
    /\ Cardinality({d \in carts["cart"] : d.user = loc[q].user}) = 1

\* C10: in every reachable state each user has at most one Cart and at most one
\* Wishlist.
C10_OneCartPerUser ==
  \A coll \in Collections, u \in UserIds :
    Cardinality({d \in carts[coll] : d.user = u}) <= 1

\* a request that found no cart is about to create one for a user whose cart
\* another request has created meanwhile
C10_Witness ==
  \E q \in Procs :
    /\ pc[q] \in {"cart_create", "add_create"}
    /\ \E d \in carts[loc[q].kind] : d.user = loc[q].user

\* C11: one request at a time, addItem raises the quantity of the item that holds
\* the product by the given amount and adds no item, or, when no item holds the
\* product, appends one item with the given quantity; so no cart holds two items
\* for one product and two addItem calls for a new product leave one item with
\* the sum of the two quantities
ItemsOf(store, user) ==
  IF \E d \in store["cart"] : d.user = user
  THEN (CHOOSE d \in store["cart"] : d.user = user).items
  ELSE <<>>

AddItemWrites(q) ==
  /\ pc[q] \in {"add_create", "add_save"}
  /\ pc'[q] = "add_invalu"

OneItemPerProduct ==
  \A d \in carts["cart"] :
    \A i, j \in 1..Len(d.items) : d.items[i].product = d.items[j].product => i = j

C11_AddItemAccumulates ==
  /\ []OneItemPerProduct
  /\ [][\A q \in Procs :
          AddItemWrites(q) =>
            LET held == ItemsOf(carts, loc[q].user)
                left == ItemsOf(carts', loc[q].user)
                product == loc[q].id
                quantity == loc[q].data.quantity
            IN IF \E i \in 1..Len(held) : held[i].product = product
               THEN /\ Len(left) = Len(held)
                    /\ \A i \in 1..Len(held) :
                         left[i] = IF held[i].product = product
                                    THEN [held[i] EXCEPT !.quantity = @ + quantity]
                                    ELSE held[i]
               ELSE left = Append(held, [_id |-> nextId["items"], product |-> product,
                                            quantity |-> quantity])]_vars

\* addItem(u, p, 1) and addItem(u, p, 2) have run on a cart that held another product
C11_Witness ==
  /\ Quiescent
  /\ \E d \in carts["cart"] :
       /\ Len(d.items) = 2
       /\ d.items[2].quantity = MaxTotal
       /\ d.items[1].product # d.items[2].product


\* C12: the save of an addItem that found the product in the cart writes the
\* quantity it read plus its own amount, whatever the store holds by then; two
\* concurrent addItem calls that read the same quantity therefore leave a stored
\* quantity below the initial quantity plus both amounts
SavesExisting(q) ==
  /\ pc[q] = "add_save"
  /\ pc'[q] = "add_invalu"
  /\ FindItem(loc[q].doc.items, loc[q].id) > 0

C12_SaveWritesReadQuantity ==
  [][\A q \in Procs :
       SavesExisting(q) =>
         LET read == loc[q].doc
             i == FindItem(read.items, loc[q].id)
         IN \E d \in carts'["cart"] :
              /\ d._id = read._id
              /\ d.items[i].quantity = read.items[i].quantity + loc[q].data.quantity]_vars

\* both calls have saved, and the stored quantity holds one of the two amounts
C12_Witness ==
  \E q1, q2 \in Procs :
    /\ q1 # q2
    /\ pc[q1] \in {"add_invalu", "add_invala"}
    /\ pc[q2] \in {"add_invalu", "add_invala"}
    /\ loc[q1].doc # NoDoc
    /\ loc[q1].doc = loc[q2].doc
    /\ loc[q1].id = loc[q2].id
    /\ LET read == loc[q1].doc
           i == FindItem(read.items, loc[q1].id)
       IN /\ i > 0
          /\ \E d \in carts["cart"] :
               /\ d._id = read._id
               /\ d.items[i].quantity <
                    read.items[i].quantity + loc[q1].data.quantity + loc[q2].data.quantity

\* C13: once every write has finished its cache invalidation and no request is in
\* flight, no cache entry of a user's cart holds a cart older than the stored
\* one, so no later getCart returns data older than the last write
IsCartKey(key) == Len(key.res) = 2 /\ key.res[1] = "cart" /\ key.q # NoQuery

C13_NoStaleCartAfterInvalidation ==
  Quiescent =>
    \A key \in DOMAIN cache : IsCartKey(key) => cache[key] \in carts["cart"]

\* C14: whichever cache calls fail, a request that queried or wrote the store
\* returns the outcome of that query or mutation: getCart returns the stored
\* cart, BrandService.list the listing of the stored brands, and addItem and
\* CampaignService create/update return without an error
Completes(q) == pc[q] \notin {"idle", "off"} /\ pc'[q] = "idle"

Failed(r) == r # NoLast /\ "error" \in DOMAIN r.res

ProductTaken(data) ==
  \/ ProductNameExists(data.name, 0)
  \/ ProductSlugExists(IF data.slug = Absent THEN generateSlug(data.name) ELSE data.slug, 0)
  \/ \E i \in 1..Len(data.variants) : SkuExists(data.variants[i])

BrandTaken(data) == NameExists(data.name, 0) \/ SlugExists(WithSlug(data).slug, 0)

ConflictAndNoWrite(q) ==
  /\ UNCHANGED <<products, brands>>
  /\ pc'[q] = "idle" => last'.res = [error |-> "Conflict"]

C15_DuplicateCreateIsConflict ==
  [][\A q \in Procs :
       /\ \A data \in ProductBodies :
            ProductCreate(q, data) /\ ProductTaken(data) => ConflictAndNoWrite(q)
       /\ (pc[q] \in {"pcreate_name", "pcreate_insert"} /\ ProductTaken(loc[q].data))
            => ConflictAndNoWrite(q)
       /\ \A id \in 1..CatalogProducts, sku \in SkuNames :
            ProductAddVariant(q, id, sku) /\ SkuExists(sku) => ConflictAndNoWrite(q)
       /\ (pc[q] = "variant_push" /\ SkuExists(loc[q].data.sku))
            => ConflictAndNoWrite(q)
       /\ \A name \in {<<"A", "b">>} :
            LET data == [name |-> name, slug |-> Absent, is_active |-> {}]
            IN BrandCreate(q, data) /\ BrandTaken(data) => ConflictAndNoWrite(q)
       /\ (pc[q] \in {"bcreate_slug", "bcreate_insert"} /\ BrandTaken(loc[q].data))
            => ConflictAndNoWrite(q)]_vars

\* C16: no two stored products share a name or a slug, whatever the
\* interleaving of ProductService.create and ProductService.update
C16_UniqueNameAndSlug ==
  \A p1, p2 \in LiveProducts :
    p1 # p2 =>
      /\ products[p1].name # products[p2].name
      /\ products[p1].slug # products[p2].slug

\* C17: no two variants, of one product or of two, have the same SKU, after any
\* sequence of ProductService.create, addVariant and updateVariant
C17_UniqueSkus ==
  \A p1, p2 \in LiveProducts :
    \A i \in 1..Len(products[p1].variants), j \in 1..Len(products[p2].variants) :
      products[p1].variants[i].sku = products[p2].variants[j].sku
        => p1 = p2 /\ i = j

\* C18: a list query over T matching records with limit L answers
\* pagination.items = T and pagination.totalPages = ceil(T / L), the least
\* number of pages of L that hold T records; a page beyond totalPages is empty
\* and still reports items = T
PageRight(items, pagination, total, page, limit) ==
  /\ pagination.items = total
  /\ pagination.totalPages * limit >= total
  /\ (pagination.totalPages - 1) * limit < total
  /\ page > pagination.totalPages => items = <<>>

QueriesList(q, label) == pc[q] = label /\ pc'[q] = "read_set"

C18_PaginationCounts ==
  [][\A q \in Procs :
       LET kq == loc[q].key.q
           res == loc'[q].res
       IN /\ QueriesList(q, "blist_query") =>
               PageRight(res.brands, res.pagination, Cardinality(BrandFilter(kq)),
                         kq.page, kq.limit)
          /\ QueriesList(q, "carts_query") =>
               PageRight(res.data, res.pagination, Cardinality(carts["cart"]),
                         kq.page, kq.limit)]_vars

\* getAllCarts has answered page 3 of two carts, one cart a page
C18_Witness ==
  /\ last.op = "cart.getAllCarts"
  /\ ~last.hit
  /\ last.res.pagination.items = 2
  /\ last.res.pagination.totalPages = 2
  /\ last.key.q.page = 3
  /\ last.res.data = <<>>

\* C19: every insert of a new order stores id 1 into an empty collection and the
\* largest stored id plus 1 otherwise; the ids of the stored orders are distinct
\* and increase in the order of creation, whatever the interleaving of the saves
InsertsOrder == Len(orders') = Len(orders) + 1

C19_OrderIdsIncrease ==
  /\ [](\A i, j \in 1..Len(orders) : i < j => orders[i].id < orders[j].id)
  /\ [][InsertsOrder =>
          /\ SubSeq(orders', 1, Len(orders)) = orders
          /\ orders'[Len(orders')].id =
               IF orders = <<>> THEN 1 ELSE LastOrderId + 1]_vars

\* two saves read the same last order; one was stored, the other was refused
C19_Witness ==
  /\ Len(orders) = 2
  /\ last.op = "order.save"
  /\ last.res = [error |-> "DuplicateKey"]

\* C20: when a create, update or delete of CampaignService / OfferService ends
\* with an error, the campaigns, the offers and the products are what they were
\* when the request was called
EndsWithError(q) == pc[q] \notin {"idle", "off"} /\ pc'[q] = "idle" /\ Failed(last')

C20_ErrorLeavesStateAsCalled ==
  [][/\ \A q \in Procs :
          EndsWithError(q) => [promos |-> promos', products |-> products'] = before[q]
     /\ (pc' = pc /\ Failed(last')) => UNCHANGED <<promos, products>>]_vars

\* a product list entry of the cache
IsProductListKey(key) == IsListKey(key, "products")

\* request q runs update and takes a step
UpdateSteps(q) == loc[q].op = "update" /\ pc[q] # "idle" /\ pc'[q] # pc[q]

BrandClash(id, data) ==
  /\ brands[id].state = "live"
  /\ \/ data.name # Absent /\ NameExists(data.name, id)
     \/ data.slug # Absent /\ SlugExists(data.slug, id)

\* the update sets a name or a slug, and what it sets is what the brand has
BrandOwn(id, data) ==
  /\ brands[id].state = "live"
  /\ data.name # Absent \/ data.slug # Absent
  /\ BrandApply(brands[id], data) = brands[id]

ProductClash(id, data) ==
  /\ products[id].exists
  /\ \/ data.name # Absent /\ ProductNameExists(data.name, id)
     \/ data.slug # Absent /\ ProductSlugExists(data.slug, id)

ProductOwn(id, data) ==
  /\ products[id].exists
  /\ data.name # Absent \/ data.slug # Absent
  /\ data.name # Absent => CastName(data.name) = products[id].name
  /\ data.slug # Absent => CastSlug(data.slug) = products[id].slug

\* the request, when this step ends it, ends without an error
NoError(q) == pc'[q] = "idle" => "error" \notin DOMAIN last'.res

\* C22: an update of a brand or a product whose name or slug (given, or derived
\* from the name) is that of a different record writes nothing and ends with a
\* Conflict error; an update that sets the record's own name and slug ends
\* without an error.
C22_UpdateUniqueExcludingSelf ==
  [][\A q \in Procs :
       /\ \A id \in BrandIds, data \in BrandPatches :
            BrandUpdate(q, id, data) =>
              /\ BrandClash(id, WithSlug(data)) => ConflictAndNoWrite(q)
              /\ BrandOwn(id, WithSlug(data)) => NoError(q)
       /\ pc[q] \in {"bupdate_name", "bupdate_write"} =>
            /\ BrandClash(loc[q].id, loc[q].data) => ConflictAndNoWrite(q)
            /\ BrandOwn(loc[q].id, loc[q].data) => NoError(q)
       /\ pc[q] \in {"pupdate_slug", "pupdate_name", "pupdate_write"} =>
            /\ ProductClash(loc[q].id, loc[q].data) => ConflictAndNoWrite(q)
            /\ ProductOwn(loc[q].id, loc[q].data) => NoError(q)]_vars

\* the step changes no record and no cache entry and, when it ends the request,
\* ends it with NotFound
NotFoundAndNoChange(q) ==
  /\ UNCHANGED <<promos, products, brands, carts, orders, cache>>
  /\ pc'[q] = "idle" => last'.res = [error |-> "NotFound"]

NoBrandAt(id) == brands[id].state # "live"

\* C23: update and delete of a Brand, Campaign or Offer id under which no record is
\* stored change no record and remove no cache entry, and end with NotFound.
C23_AbsentIdIsNotFound ==
  [][\A q \in Procs :
       /\ \A k \in Kinds, id \in PromoIds :
            ~Live(k, id) =>
              /\ (\E has \in BOOLEAN, pids \in SUBSET ProductIds, act \in SUBSET BOOLEAN :
                    PromoUpdate(q, k, id, has, pids, act)) => NotFoundAndNoChange(q)
              /\ PromoDelete(q, k, id) => NotFoundAndNoChange(q)
       /\ \A id \in BrandIds :
            NoBrandAt(id) =>
              /\ BrandRemove(q, id) => NotFoundAndNoChange(q)
              /\ (\E data \in AbsentBrandPatches : BrandUpdate(q, id, data))
                   => NotFoundAndNoChange(q)
       /\ (pc[q] \in {"bupdate_name", "bupdate_write"} /\ NoBrandAt(loc[q].id))
            => NotFoundAndNoChange(q)]_vars

\* the cart of the user holds no item with the identifier (or there is no cart)
NoSuchItem(user, itemId) ==
  \A d \in DocsOf("cart", user) : \A i \in 1..Len(d.items) : d.items[i]._id # itemId

\* C24: updateItem and removeItem on a user without a cart, or on an item
\* identifier no item of the cart has, end with NotFound and leave the carts and
\* the cache as they are; otherwise the item they edit or remove is the one that
\* has the identifier as its _id, whatever the products of the items are.
C24_ItemSelectedById ==
  [][\A q \in Procs :
       /\ \A u \in UserIds, itemId \in 1..MaxItems :
            (\/ \E n \in 0..MaxQuantity : CartUpdateItem(q, u, itemId, n)
             \/ CartRemoveItem(q, u, itemId)) =>
              IF NoSuchItem(u, itemId)
              THEN /\ pc'[q] = "idle" /\ last'.res = [error |-> "NotFound"]
                   /\ UNCHANGED <<carts, cache>>
              ELSE pc'[q] \in {"upd_save", "rem_save"}
       /\ (pc[q] = "upd_save" /\ pc'[q] = "add_invalu") =>
            LET held == ItemsOf(carts, loc[q].user)
            IN ItemsOf(carts', loc[q].user) =
                 [i \in 1..Len(held) |->
                    IF held[i]._id = loc[q].id
                    THEN [held[i] EXCEPT !.quantity = loc[q].data.quantity]
                    ELSE held[i]]
       /\ (pc[q] = "rem_save" /\ pc'[q] = "add_invalu") =>
            ItemsOf(carts', loc[q].user) =
              SelectSeq(ItemsOf(carts, loc[q].user), LAMBDA item : item._id # loc[q].id)]_vars

\* updateItem has set the quantity of the item it was given, in a cart where
\* another item holds the product whose id equals the item identifier
C24_Witness ==
  \E q \in Procs :
    /\ pc[q] = "add_invalu" /\ loc[q].op = "cart.updateItem"
    /\ \E d \in DocsOf("cart", loc[q].user) :
         \E i, j \in 1..Len(d.items) :
           /\ i # j
           /\ d.items[i]._id = loc[q].id /\ d.items[i].product # loc[q].id
           /\ d.items[j].product = loc[q].id
           /\ d.items[i].quantity = loc[q].data.quantity
           /\ loc[q].doc.items[i].quantity # loc[q].data.quantity

\* C25: addItem with a malformed user id or a malformed product id ends in the
\* step that calls it, before any await, with BadRequest; no cart is created or
\* changed and no cache entry is removed.
C25_MalformedIdIsBadRequest ==
  [][\A q \in Procs, u \in UserIds \cup {0}, p \in 0..EditProducts, n \in 1..MaxQuantity :
       (CartAddItem(q, u, p, n) /\ (u = 0 \/ p = 0)) =>
         /\ pc'[q] = "idle"
         /\ last'.res = [error |-> "BadRequest"]
         /\ UNCHANGED <<carts, cache, nextId>>]_vars

\* addItem has been refused with BadRequest while a cart with an item was stored
\* and cached
C25_Witness ==
  /\ last.op = "cart.addItem" /\ last.res = [error |-> "BadRequest"]
  /\ \E d \in carts["cart"] : d.items # <<>>
  /\ \E key \in DOMAIN cache : IsCartKey(key)

\* request q runs clearCart and takes a step
ClearSteps(q) == loc[q].op = "cart.clearCart" /\ pc[q] # "idle" /\ pc'[q] # pc[q]

\* the cache holds no entry that clearCart(user) deletes
CartKeysGone(c, user) ==
  \A key \in DOMAIN c :
    ~Matches(<<"cart", IdStr(user)>>, key) /\ ~Matches(<<"cart", "all">>, key)

\* C26: clearCart twice in a row is clearCart once.  Without a cart every call
\* ends with NotFound and changes nothing.  With a cart the call succeeds and
\* leaves the cart with an empty item list and the cache without the user's cart
\* entries; called on such a state it succeeds again and changes neither the
\* carts nor the cache.
C26_ClearCartIdempotent ==
  [][\A q \in Procs :
       /\ \A u \in UserIds :
            CartClearCart(q, u) =>
              IF DocsOf("cart", u) = {}
              THEN /\ pc'[q] = "idle" /\ last'.res = [error |-> "NotFound"]
                   /\ UNCHANGED <<carts, cache>>
              ELSE pc'[q] = "clear_save" /\ UNCHANGED <<carts, cache>>
       /\ ClearSteps(q) =>
            LET u == loc[q].user
            IN /\ NoError(q)
               /\ ItemsOf(carts', u) = <<>>
               /\ \A d \in carts["cart"] : d.user # u => d \in carts'["cart"]
               /\ ItemsOf(carts, u) = <<>> => carts' = carts
               /\ CartKeysGone(cache, u) => cache' = cache
               /\ pc'[q] = "idle" => CartKeysGone(cache', u)]_vars

\* clearCart is about to return, having run on a cart that had been emptied
\* before
C26_Witness ==
  \E q \in Procs :
    /\ pc[q] = "add_invala" /\ loc[q].op = "cart.clearCart"
    /\ loc[q].doc.items = <<>> /\ loc[q].doc.__v > 0
    /\ ItemsOf(carts, loc[q].user) = <<>>

\* request q runs an update that carries no product-ID list and takes a step
StatusSteps(q) ==
  loc[q].op = "update" /\ ~loc[q].has /\ pc[q] # "idle" /\ pc'[q] # pc[q]

\* C27: updateStatus(id, is_active) of a Campaign or an Offer and
\* BrandService.changeStatus(id, is_active) set is_active of the record and
\* nothing else: the record's other fields (name, slug, product-ID list), every
\* other record and every product's campaigns and offers are as before.
C27_StatusChangesOnlyIsActive ==
  [][\A q \in Procs :
       /\ \A k \in Kinds, id \in PromoIds, b \in BOOLEAN :
            PromoUpdateStatus(q, k, id, b) => UNCHANGED <<promos, products, brands>>
       /\ StatusSteps(q) =>
            /\ UNCHANGED <<products, brands>>
            /\ promos' \in {promos,
                            [promos EXCEPT ![loc[q].kind][loc[q].id].is_active =
                               CHOOSE b \in loc[q].act : TRUE]}
       /\ \A id \in BrandIds, b \in BOOLEAN :
            BrandChangeStatus(q, id, b) =>
              /\ UNCHANGED <<promos, products>>
              /\ brands' \in {brands, [brands EXCEPT ![id].is_active = b]}
       /\ (loc[q].op = "brand.update" /\ pc[q] \in {"brand_invald", "brand_inval"})
            => UNCHANGED <<promos, products, brands>>]_vars

\* updateStatus has switched off a record that references products, and a brand
\* with a name is stored
C27_Witness ==
  \E q \in Procs :
    /\ pc[q] = "update_invald" /\ ~loc[q].has
    /\ ~promos[loc[q].kind][loc[q].id].is_active
    /\ promos[loc[q].kind][loc[q].id].productsIds # {}
    /\ \A p \in promos[loc[q].kind][loc[q].id].productsIds :
         loc[q].id \in Refs(p, loc[q].kind)
    /\ \E b \in LiveBrands : ~brands[b].is_active /\ brands[b].name # <<>>

\* the reference rule: lowercase, each maximal run of non-alphanumeric characters
\* replaced by one hyphen, leading and trailing hyphens stripped
ReferenceSlug(name) == Strip(CollapseRuns(toLowerCase(name), FALSE), "-")

RECURSIVE CollapseSeparators(_, _)
CollapseSeparators(s, inRun) ==
  IF s = <<>> THEN <<>>
  ELSE IF Head(s) \in {" ", "-"}
       THEN (IF inRun THEN <<>> ELSE <<"-">>) \o CollapseSeparators(Tail(s), TRUE)
       ELSE <<Head(s)>> \o CollapseSeparators(Tail(s), FALSE)

\* the rule as amended: lowercase; characters other than letters, digits,
\* underscores, blanks and hyphens are deleted; each maximal run of blanks and
\* hyphens is replaced by one hyphen; leading and trailing hyphens are stripped
AmendedSlug(name) ==
  LET kept == SelectSeq(toLowerCase(name),
                        LAMBDA c : IsAlphanumeric(c) \/ c \in {"_", " ", "-"})
  IN Strip(CollapseSeparators(kept, FALSE), "-")

\* the name is made of letters, digits, blanks and hyphens
PlainName(name) ==
  \A i \in 1..Len(name) : IsAlphanumeric(name[i]) \/ name[i] \in {" ", "-"}

NoDuplicates(arr) == \A i, j \in 1..Len(arr) : arr[i] = arr[j] => i = j

\* C29: no product's campaigns or offers set holds an ID twice, whatever creates
\* and updates of campaigns and offers and whatever links, of one ID again or of
\* a list with repeats, have run.
C29_NoDuplicateRefs ==
  \A p \in ProductIds, k \in Kinds : NoDuplicates(products[p][k])

\* a list with repeats has been linked to a product that a create had linked
C29_Witness ==
  \E q \in Procs, k \in Kinds :
    /\ pc[q] = "prod_invalp" /\ loc[q].op = "product.link"
    /\ Live(k, 1) /\ 1 \in promos[k][1].productsIds
    /\ Refs(1, k) = {1, 2} /\ Len(products[1][k]) = 2

C32_ConcurrentUpdatesAgree ==
  (Quiescent /\ Live("campaigns", 1)) =>
    {p \in ProductIds : products[p].exists /\ 1 \in Refs(p, "campaigns")}
      = promos["campaigns"][1].productsIds

CartMutations == {"cart.addItem", "cart.updateItem", "cart.removeItem", "cart.clearCart"}

\* C33: when addItem, updateItem, removeItem or clearCart returns for user u, the
\* cache holds no entry of getCart(u, .) and none of getAllCarts(.); with one
\* request at a time, a getCart answered from the cache returns the cart as it is
\* stored and a getAllCarts answered from the cache returns carts as they are
\* stored.
C33_CartMutationInvalidates ==
  [][\A q \in Procs :
       /\ (pc[q] = "add_invala" /\ pc'[q] = "idle") =>
            \A key \in DOMAIN cache' :
              key.res \notin {<<"cart", IdStr(loc[q].user)>>, <<"cart", "all">>}
       /\ \A u \in UserIds, query \in CartQueries :
            (CartGetCart(q, u, query)
               /\ Present(cache, generateCacheKey(<<"cart", IdStr(u)>>, query))) =>
              last'.res \in DocsOf("cart", u)
       /\ \A query \in CacheCartQueries :
            (CartGetAllCarts(q, query)
               /\ Present(cache, generateCacheKey(<<"cart", "all">>, query))) =>
              \A i \in 1..Len(last'.res.data) : last'.res.data[i] \in carts["cart"]]_vars

\* a mutation has saved while the cache still holds the user's cart as it was
\* before and a page of all carts
C33_Witness ==
  \E q \in Procs :
    /\ pc[q] = "add_invalu" /\ loc[q].op \in CartMutations
    /\ \E key \in DOMAIN cache :
         /\ key.res = <<"cart", IdStr(loc[q].user)>>
         /\ cache[key] \notin carts["cart"]
    /\ \E key \in DOMAIN cache : key.res = <<"cart", "all">>

\* C34: in every reachable state, under concurrent addItem calls of one user, the
\* products of a cart's items are pairwise distinct.
C34_OneItemPerProduct ==
  \A d \in carts["cart"] :
    \A i, j \in 1..Len(d.items) : d.items[i].product = d.items[j].product => i = j

\* C35: updateReview and deleteReview change or remove a review only for the user
\* the review belongs to; called by anyone else, the owner of another review of
\* the product included, the call fails and the review stays as it is.
C35_OnlyOwnerChangesReview ==
  [][\A p \in ProductIds : \A i \in 1..Len(products[p].reviews) :
       LET review == products[p].reviews[i]
       IN review \notin Range(products'[p].reviews) =>
            \E q \in Procs :
              /\ loc[q].op \in {"product.updateReview", "product.deleteReview"}
              /\ loc[q].id = p
              /\ loc[q].data.reviewId = review._id
              /\ loc[q].data.userId = review.user]_vars

C37_QuantityAtLeastOne ==
  \A d \in carts["cart"] : \A i \in 1..Len(d.items) : d.items[i].quantity >= 1

\* an addItem or updateItem that would have left an item below 1 was refused
\* while the cart holds an item
C37_Witness ==
  /\ last.op \in {"cart.addItem", "cart.updateItem"}
  /\ last.res = [error |-> "ValidationError"]
  /\ \E d \in carts["cart"] : d.items # <<>>

\* C38: the save of updateItem leaves the user's items as they were but for the
\* quantity of the item with the given identifier, which is the quantity given;
\* the save of removeItem leaves the user's items as they were, in their order,
\* without the item with the given identifier; neither changes another user's
\* cart.
C38_ItemEditFrame ==
  [][\A q \in Procs :
       (pc[q] \in {"upd_save", "rem_save"} /\ pc'[q] = "add_invalu") =>
         LET user == loc[q].user
             old == ItemsOf(carts, user)
             new == ItemsOf(carts', user)
         IN /\ \A d \in carts["cart"] : d.user # user => d \in carts'["cart"]
            /\ {d.user : d \in carts'["cart"]} = {d.user : d \in carts["cart"]}
            /\ pc[q] = "upd_save" =>
                 new = [i \in 1..Len(old) |->
                          IF old[i]._id = loc[q].id
                          THEN [old[i] EXCEPT !.quantity = loc[q].data.quantity]
                          ELSE old[i]]
            /\ pc[q] = "rem_save" =>
                 new = SelectSeq(old, LAMBDA it : it._id # loc[q].id)]_vars

\* removeItem has taken the first of several items out of a cart while another
\* user has a cart with an item
C38_Witness ==
  \E q \in Procs :
    /\ pc[q] = "add_invalu" /\ loc[q].op = "cart.removeItem"
    /\ \E d \in carts["cart"] :
         /\ d.user = loc[q].user
         /\ d.items # <<>> /\ d.items[1]._id > loc[q].id
    /\ \E d \in carts["cart"] : d.user # loc[q].user /\ d.items # <<>>

\* C39: the slug ProductService.create derives from a non-empty name is not
\* empty and has the form required of a slug the caller supplies: groups of
\* lowercase letters and digits separated by single hyphens.
C39_DerivedSlugUrlFriendly ==
  \A q \in Procs :
    pc[q] \in {"pcreate_name", "pcreate_insert"} => UrlFriendly(loc[q].data.slug)
====
